---- MODULE Spec2Model ----
(***************************************************************************)
(* Model of the mbeat multicast heartbeat subscriber (src/src/sub.c):      *)
(* main, receive_datagrams, handle_event, convert_payload, print_payload.  *)
(*                                                                         *)
(* Unsigned C integers are kept at their width as tuples of bytes, most    *)
(* significant byte first (a uint64_t is 8 bytes, a uint32_t 4 bytes).     *)
(* A field on the wire is the tuple of its bytes in transmission order.    *)
(* The host is little-endian: loading a field from the receive buffer      *)
(* yields the wire bytes reversed, and ntohl/ntohll reverse them again.    *)
(***************************************************************************)
EXTENDS Integers, Sequences, FiniteSets, TLC

\* ------------------------------------------------------------------ bounds
NumEps == 1
MaxArrivals == 2
MaxRecvErrs == 1
\* length of the event array evs (64 in the source) where a wake-up batch
\* has to be smaller than the number of ready descriptors
MaxEvents == 1
\* rounds of the publisher that are followed, and sendmsg failures
MaxRounds == 2
MaxSendErrs == 1
\* datagrams the network corrupts on the way to the subscriber
MaxNoise == 1
\* times the event queue wakes receive_events of a backend
MaxWakeups == 2
\* turns of the do-while loop of generate_key
MaxDraws == 2

\* ------------------------------------------------------- program constants
MBEAT_PAYLOAD_MAGIC == <<109, 98, 105, 116>>
MBEAT_PAYLOAD_VERSION == 2
SizeofPayload == 136
EXIT_SUCCESS == 0
EXIT_FAILURE == 1
RecvFailed == -1
SizeofSsi == 128

SIGFD == 0
Eps == 1..NumEps

\* ------------------------------------------------------- fixed-width bytes
Reverse(s) == [k \in 1..Len(s) |-> s[Len(s) + 1 - k]]

U64(x) == <<0, 0, 0, 0, 0, 0, 0, x>>

U64Zero == U64(0)

\* a < b for two unsigned integers of the same width
ULt(a, b) == \E k \in 1..Len(a) : a[k] < b[k] /\ \A j \in 1..(k - 1) : a[j] = b[j]

RECURSIVE SubBorrow(_, _, _, _)
SubBorrow(a, b, k, borrow) ==
  IF k = 0 THEN <<>>
  ELSE LET d == a[k] - b[k] - borrow
       IN  Append(SubBorrow(a, b, k - 1, IF d < 0 THEN 1 ELSE 0), d % 256)

\* a - b modulo 2^(8 * width), as C computes it on unsigned operands
USub(a, b) == SubBorrow(a, b, Len(a), 0)

RECURSIVE AddCarry(_, _, _, _)
AddCarry(a, b, k, carry) ==
  IF k = 0 THEN <<carry>>
  ELSE LET s == a[k] + b[k] + carry
       IN  Append(AddCarry(a, b, k - 1, s \div 256), s % 256)

\* exact sum of two unsigned integers: one byte wider than the operands
UAddExact(a, b) == AddCarry(a, b, Len(a), 0)

\* ------------------------------------------------------------- byte order
LoadLE(wire) == Reverse(wire)

ntohs(x) == Reverse(x)

ntohl(x) == Reverse(x)

ntohll(x) == Reverse(x)

\* ------------------------------------------------------------- datagrams
\* The wire bytes of the payload fields the checks and filters of the
\* subscriber do not look at, as a publisher with default options sends
\* them: source TTL 32, port 22999, group 239.1.1.1, padding, the two
\* departure times, a sequence length of 5 and the interface name "eth1".
WireRest ==
  [ttl |-> 32, mport |-> <<89, 215>>, maddr |-> <<1, 1, 1, 239>>,
   pad |-> <<0, 0, 0, 0>>, rsec |-> <<0, 0, 0, 0, 0, 0, 0, 7>>,
   msec |-> <<0, 0, 0, 0, 0, 0, 0, 9>>, slen |-> <<0, 0, 0, 0, 0, 0, 0, 5>>,
   iname |-> <<101, 116, 104, 49>>]

\* A datagram as it sits in a socket's receive queue: its length, the wire
\* bytes of its fields, and the TTL control message (-1: no control message
\* was attached).
Dgram(len, magic, fver, sid, snum, cttl) ==
  [len |-> len, magic |-> magic, fver |-> fver, sid |-> sid, snum |-> snum,
   cttl |-> cttl] @@ WireRest

BadMagic == <<109, 98, 105, 117>>

Good(k, s, t) == Dgram(SizeofPayload, MBEAT_PAYLOAD_MAGIC, MBEAT_PAYLOAD_VERSION, U64(k), U64(s), t)

\* the datagrams that reach the sockets of the running subscriber: one the
\* default options accept (and the key filter 42 drops), one of a wrong
\* size and one with an altered magic
Dgrams ==
  { Good(99, 1, -1),
    Dgram(SizeofPayload - 1, MBEAT_PAYLOAD_MAGIC, MBEAT_PAYLOAD_VERSION, U64(99), U64(1), 64),
    Dgram(SizeofPayload, BadMagic, MBEAT_PAYLOAD_VERSION, U64(99), U64(1), 64) }

\* ------------------------------------------------------------- options
\* sub_options after parse_args: -e, -s SID (at least 1), -o OFF (at least
\* 1), -r, -t DUR; the defaults are all zero.
OptsSet ==
  [so_err : {0, 1}, so_sid : {U64(0), U64(42)}, so_off : {U64(0)},
   so_raw : {0}, so_tout : {0, 1}]

\* opts     sub_options, fixed by parse_args
\* pc, step position in main / receive_datagrams / handle_event
\* sockq    receive queue of every endpoint socket
\* sigmask  signals blocked and routed to the signal descriptor
\* pending  blocked signals raised and not yet consumed
\* timer    the one-shot timeout timer: "off", "armed", "fired"
\* evs, i   the batch epoll_wait returned and the index of the current event
\* cur, pl  endpoint and payload buffer of the running handle_event
\* owed     datagrams queued when handle_event started and not yet read
\* drained  datagrams the running handle_event has read so far
\* last     what the latest pass of the read loop did
\* out, log output stream and diagnostics written so far
\* why      what made main leave: "setup", "signal", "queue", "handler"
\* sint, shup  the signal flags of the pselect backend
\* eps      the endpoint list parse_endpoints builds, head first
\* pub_c, pub_e  publisher: round counter c and list cursor e
\* sent     publisher: the datagrams handed to sendmsg so far
\* slept    publisher: the rounds after which nanosleep was called
\* calls    create_sockets: the system calls made so far, with their values
\* script   the wake-ups the kernel delivers to a backend's receive_events
\* runs     what receive_events of every backend did with the script
VARIABLES opts, pc, step, sockq, sigmask, pending, timer, evs, i, cur, pl,
          owed, drained, last, out, log, exitCode, why, flushed, freed, nArr, nErr,
          sint, shup, eps, pub_c, pub_e, sent, slept, calls, script, runs

vars == <<opts, pc, step, sockq, sigmask, pending, timer, evs, i, cur, pl,
          owed, drained, last, out, log, exitCode, why, flushed, freed, nArr, nErr,
          sint, shup, eps, pub_c, pub_e, sent, slept, calls, script, runs>>

\* what the subscriber of sub.c never touches
backendVars == <<sint, shup>>

pubVars == <<eps, pub_c, pub_e, sent, slept>>

\* what only the specifications of create_sockets and of the three
\* receive_events touch
isoVars == <<calls, script, runs>>

\* ------------------------------------------------------ subscriber: codec
\* The receive buffer pl right after recvmsg stored datagram d in it: every
\* multi-byte field is the host's (little-endian) reading of the wire bytes.
\* The members sub.c names lie where the wire layout has a field of their
\* width: pl_sid on the key, pl_sec on the wall-clock departure time and the
\* 32-bit pl_nsec on the four bytes before it.  pl_msec stands for the eight
\* bytes of the monotonic departure time, which sub.c names nowhere.
LoadPayload(d) ==
  [pl_magic |-> LoadLE(d.magic), pl_fver |-> d.fver, pl_ttl |-> d.ttl,
   pl_mport |-> LoadLE(d.mport), pl_maddr |-> LoadLE(d.maddr),
   pl_nsec |-> LoadLE(d.pad), pl_sec |-> LoadLE(d.rsec), pl_msec |-> LoadLE(d.msec),
   pl_sid |-> LoadLE(d.sid), pl_snum |-> LoadLE(d.snum), pl_slen |-> LoadLE(d.slen),
   pl_iname |-> d.iname]

Uninit ==
  [pl_magic |-> <<0, 0, 0, 0>>, pl_fver |-> 0, pl_ttl |-> 0, pl_mport |-> <<0, 0>>,
   pl_maddr |-> <<0, 0, 0, 0>>, pl_nsec |-> <<0, 0, 0, 0>>, pl_sec |-> U64Zero,
   pl_msec |-> U64Zero, pl_sid |-> U64Zero, pl_snum |-> U64Zero, pl_slen |-> U64Zero,
   pl_iname |-> <<>>]

convert_payload_NoSlen(p) ==
  [p EXCEPT !.pl_magic = ntohl(@), !.pl_mport = ntohs(@), !.pl_maddr = ntohl(@),
            !.pl_sid = ntohll(@), !.pl_snum = ntohll(@), !.pl_sec = ntohll(@),
            !.pl_nsec = ntohl(@)]

convert_payload(p) ==
  [p EXCEPT !.pl_magic = ntohl(@), !.pl_mport = ntohs(@), !.pl_maddr = ntohl(@),
            !.pl_sid = ntohll(@), !.pl_snum = ntohll(@), !.pl_slen = ntohll(@),
            !.pl_sec = ntohll(@), !.pl_nsec = ntohl(@)]

retrieve_ttl(d) == IF d.cttl >= 0 THEN d.cttl ELSE -1

\* print_payload_csv: the destination TTL column, a number or "N/A"
ttl_str(ttl) ==
  IF 0 <= ttl /\ ttl <= 255 THEN [na |-> FALSE, num |-> ttl] ELSE [na |-> TRUE, num |-> 0]

ro_ttla_Always(ttl) == 1

\* print_payload_raw: the availability flag and the TTL byte of the record
ro_ttla(ttl) == IF 0 <= ttl /\ ttl <= 255 THEN 1 ELSE 0

ro_ttl(ttl) == ttl % 256

\* ------------------------------------------------- subscriber: validation
WrongSize(nbytes) == nbytes # SizeofPayload

WrongMagic_Never(p) == FALSE

WrongMagic(p) == p.pl_magic # MBEAT_PAYLOAD_MAGIC

WrongVersion_Never(p) == FALSE

WrongVersion(p) == p.pl_fver # MBEAT_PAYLOAD_VERSION

\* The three checks of handle_event in the order the code runs them.
\* checked lists the fields examined, msgs the diagnostics written.
Validate_MagicFirst(nbytes, buf) ==
  LET c == convert_payload(buf)
  IN  IF WrongMagic(c)
      THEN [ok |-> FALSE, checked |-> <<"magic">>, pl |-> c,
            msgs |-> <<"Payload magic number invalid">>]
      ELSE IF WrongSize(nbytes)
      THEN [ok |-> FALSE, checked |-> <<"magic", "size">>, pl |-> c,
            msgs |-> <<"Wrong payload size">>]
      ELSE IF WrongVersion(c)
      THEN [ok |-> FALSE, checked |-> <<"magic", "size", "version">>, pl |-> c,
            msgs |-> <<"Unsupported payload version">>]
      ELSE [ok |-> TRUE, checked |-> <<"magic", "size", "version">>, pl |-> c,
            msgs |-> <<>>]

Validate_SilentReject(nbytes, buf) ==
  IF WrongSize(nbytes)
  THEN [ok |-> FALSE, checked |-> <<"size">>, pl |-> buf,
        msgs |-> <<"Wrong payload size">>]
  ELSE LET c == convert_payload(buf)
       IN  IF WrongMagic(c)
           THEN [ok |-> FALSE, checked |-> <<"size", "magic">>, pl |-> c,
                 msgs |-> <<>>]
           ELSE IF WrongVersion(c)
           THEN [ok |-> FALSE, checked |-> <<"size", "magic", "version">>, pl |-> c,
                 msgs |-> <<"Unsupported payload version">>]
           ELSE [ok |-> TRUE, checked |-> <<"size", "magic", "version">>, pl |-> c,
                 msgs |-> <<>>]

Validate(nbytes, buf) ==
  IF WrongSize(nbytes)
  THEN [ok |-> FALSE, checked |-> <<"size">>, pl |-> buf,
        msgs |-> <<"Wrong payload size">>]
  ELSE LET c == convert_payload(buf)
       IN  IF WrongMagic(c)
           THEN [ok |-> FALSE, checked |-> <<"size", "magic">>, pl |-> c,
                 msgs |-> <<"Payload magic number invalid">>]
           ELSE IF WrongVersion(c)
           THEN [ok |-> FALSE, checked |-> <<"size", "magic", "version">>, pl |-> c,
                 msgs |-> <<"Unsupported payload version">>]
           ELSE [ok |-> TRUE, checked |-> <<"size", "magic", "version">>, pl |-> c,
                 msgs |-> <<>>]

\* ---------------------------------------------------- subscriber: output
KeyFilterDrops_NoZero(o, p) == o.so_sid # p.pl_sid

KeyFilterDrops(o, p) == o.so_sid # U64Zero /\ o.so_sid # p.pl_sid

FloorDrops_Never(o, p) == FALSE

FloorDrops(o, p) == ULt(p.pl_snum, o.so_off)

\* print_payload: the records written to the output stream (none or one)
\* and the payload buffer as the call leaves it.
\* stage: the statement the call returned from ("key": the session-ID
\* filter, "floor": the offset threshold, "output": after printing).
print_payload(o, p, e, ttl) ==
  IF KeyFilterDrops(o, p) THEN [stage |-> "key", printed |-> <<>>, pl |-> p]
  ELSE IF FloorDrops(o, p) THEN [stage |-> "floor", printed |-> <<>>, pl |-> p]
  ELSE LET q == [p EXCEPT !.pl_snum = USub(@, o.so_off)]
       IN  [stage |-> "output",
            printed |-> <<[line |-> IF o.so_raw = 1 THEN "raw" ELSE "csv", ep |-> e,
                           sid |-> q.pl_sid, snum |-> q.pl_snum, ttl |-> ttl,
                           slen |-> q.pl_slen]
                          @@ (IF o.so_raw = 1
                              THEN [ro_ttla |-> ro_ttla(ttl), ro_ttl |-> ro_ttl(ttl)]
                              ELSE [ttl_str |-> ttl_str(ttl)])>>,
            pl |-> q]

\* ----------------------------------------------- subscriber: handle_event
RecvBreaks_Always(errno) == TRUE

RecvBreaks(errno) == errno = "EAGAIN"

RecvErrorAborts_Never(o) == FALSE

RecvErrorAborts_Always(o) == TRUE

RecvErrorAborts(o) == o.so_err = 1

RejectAborts_OnPolicy(o) == o.so_err = 1

RejectAborts(o) == FALSE

NoDgram == Dgram(0, <<0, 0, 0, 0>>, 0, U64Zero, U64Zero, -1)

\* One pass through the while loop of handle_event on endpoint e, with buf
\* the payload buffer before the pass and r the outcome of recvmsg.
\* ret: "continue" (next pass), "true" / "false" (handle_event returns).
handle_event_pass(o, e, buf, r) ==
  LET failed == r.nbytes = RecvFailed
      none == [kind |-> "eagain", dg |-> r.dg, nbytes |-> r.nbytes, checked |-> <<>>,
               msgs |-> <<>>, valid |-> FALSE, dec |-> buf, stage |-> "none",
               printed |-> <<>>, pl |-> buf, ret |-> "true"]
  IN  IF failed /\ RecvBreaks(r.errno)
      THEN [none EXCEPT !.kind = IF r.errno = "EAGAIN" THEN "eagain" ELSE "error"]
      ELSE IF failed /\ RecvErrorAborts(o)
      THEN [none EXCEPT !.kind = "error", !.msgs = <<"Unable to receive datagram">>,
                        !.ret = "false"]
      ELSE LET rbuf == IF failed THEN buf ELSE LoadPayload(r.dg)
               m0 == IF failed THEN <<"Unable to receive datagram">> ELSE <<>>
               v == Validate(r.nbytes, rbuf)
               knd == IF failed THEN "error" ELSE "dgram"
           IN  IF ~v.ok
               THEN [kind |-> knd, dg |-> r.dg, nbytes |-> r.nbytes, checked |-> v.checked,
                     msgs |-> m0 \o v.msgs, valid |-> FALSE, dec |-> v.pl,
                     stage |-> "none", printed |-> <<>>, pl |-> v.pl,
                     ret |-> IF RejectAborts(o) THEN "false" ELSE "continue"]
               ELSE LET pr == print_payload(o, v.pl, e, retrieve_ttl(r.dg))
                    IN  [kind |-> knd, dg |-> r.dg, nbytes |-> r.nbytes, checked |-> v.checked,
                         msgs |-> m0 \o v.msgs, valid |-> TRUE, dec |-> v.pl,
                         stage |-> pr.stage, printed |-> pr.printed, pl |-> pr.pl,
                         ret |-> "continue"]

\* ------------------------------------------------------- subscriber: main
SetupSteps_AlarmFirst ==
  <<"cache_hostname", "parse_args", "disable_buffering", "parse_endpoints",
    "create_event_queue", "create_sockets", "create_socket_events",
    "install_alarm", "create_signal_event">>

SetupSteps ==
  <<"cache_hostname", "parse_args", "disable_buffering", "parse_endpoints",
    "create_event_queue", "create_sockets", "create_socket_events",
    "create_signal_event", "install_alarm">>

\* install_alarm returns success at once when no timeout is configured
CanFail(o, s) == s = "install_alarm" => o.so_tout # 0

SignalMask_NoAlarm(o) == {"SIGINT", "SIGHUP"}

\* the signal set of create_signal_event
SignalMask(o) == {"SIGINT", "SIGHUP"} \cup (IF o.so_tout > 0 THEN {"SIGALRM"} ELSE {})

SignalEventResult_Failure == FALSE

SignalEventResult == TRUE

ExitCodeOf_AlwaysSuccess(rd) == EXIT_SUCCESS

ExitCodeOf(rd) == IF rd THEN EXIT_SUCCESS ELSE EXIT_FAILURE

NoLast ==
  [kind |-> "none", dg |-> NoDgram, nbytes |-> 0, checked |-> <<>>, msgs |-> <<>>,
   valid |-> FALSE, dec |-> Uninit, stage |-> "none", printed |-> <<>>, pl |-> Uninit,
   ret |-> "continue"]

Init ==
  /\ opts \in OptsSet
  /\ pc = "setup"
  /\ step = 1
  /\ sockq = [e \in Eps |-> <<>>]
  /\ sigmask = {}
  /\ pending = {}
  /\ timer = "off"
  /\ evs = <<>>
  /\ i = 0
  /\ cur = 0
  /\ pl = Uninit
  /\ owed = 0
  /\ drained = 0
  /\ last = NoLast
  /\ out = <<>>
  /\ log = <<>>
  /\ exitCode = -1
  /\ why = "none"
  /\ flushed = FALSE
  /\ freed = FALSE
  /\ nArr = 0
  /\ nErr = 0
  /\ sint = FALSE
  /\ shup = FALSE
  /\ eps = <<>>
  /\ pub_c = 0
  /\ pub_e = 0
  /\ sent = <<>>
  /\ slept = <<>>
  /\ calls = <<>>
  /\ script = <<>>
  /\ runs = <<>>

\* main returns the exit code of a failed (FALSE) or successful (TRUE) run;
\* only the successful path flushes the output and frees the endpoints.
MainReturn(rd, reason) ==
  /\ pc' = "exit"
  /\ why' = reason
  /\ exitCode' = ExitCodeOf(rd)
  /\ flushed' = (flushed \/ rd)
  /\ freed' = (freed \/ rd)

MainSetup_GoesOn ==
  /\ pc = "setup"
  /\ \E ok \in BOOLEAN :
       /\ ~ok => CanFail(opts, SetupSteps[step])
       /\ why' = IF ok THEN why ELSE "setup"
       /\ sigmask' = IF SetupSteps[step] = "create_signal_event"
                     THEN sigmask \cup SignalMask(opts) ELSE sigmask
       /\ timer' = IF SetupSteps[step] = "install_alarm" /\ opts.so_tout # 0
                   THEN "armed" ELSE timer
       /\ IF step = Len(SetupSteps)
          THEN pc' = "header" /\ step' = step
          ELSE pc' = pc /\ step' = step + 1
       /\ UNCHANGED <<exitCode, flushed, freed>>
  /\ UNCHANGED <<opts, sockq, pending, evs, i, cur, pl, owed, drained, last, out, log,
                 nArr, nErr>>
  /\ UNCHANGED <<backendVars, pubVars, isoVars>>

\* main: one setup call, which either fails (return EXIT_FAILURE) or succeeds
MainSetup ==
  /\ pc = "setup"
  /\ \E ok \in BOOLEAN :
       IF ~ok
       THEN /\ CanFail(opts, SetupSteps[step])
            /\ MainReturn(FALSE, "setup")
            /\ UNCHANGED <<step, sigmask, timer>>
       ELSE /\ sigmask' = IF SetupSteps[step] = "create_signal_event"
                          THEN sigmask \cup SignalMask(opts) ELSE sigmask
            /\ timer' = IF SetupSteps[step] = "install_alarm" /\ opts.so_tout # 0
                        THEN "armed" ELSE timer
            /\ IF step = Len(SetupSteps)
               THEN pc' = "header" /\ step' = step
               ELSE pc' = pc /\ step' = step + 1
            /\ UNCHANGED <<exitCode, why, flushed, freed>>
  /\ UNCHANGED <<opts, sockq, pending, evs, i, cur, pl, owed, drained, last, out, log,
                 nArr, nErr>>
  /\ UNCHANGED <<backendVars, pubVars, isoVars>>

RD_Header_Always ==
  /\ pc = "header"
  /\ out' = Append(out, [line |-> "header"])
  /\ pc' = "wait"
  /\ UNCHANGED <<opts, step, sockq, sigmask, pending, timer, evs, i, cur, pl, owed,
                 drained, last, log, exitCode, why, flushed, freed, nArr, nErr>>
  /\ UNCHANGED <<backendVars, pubVars, isoVars>>

\* receive_datagrams: the CSV header
RD_Header ==
  /\ pc = "header"
  /\ out' = IF opts.so_raw = 0 THEN Append(out, [line |-> "header"]) ELSE out
  /\ pc' = "wait"
  /\ UNCHANGED <<opts, step, sockq, sigmask, pending, timer, evs, i, cur, pl, owed,
                 drained, last, log, exitCode, why, flushed, freed, nArr, nErr>>
  /\ UNCHANGED <<backendVars, pubVars, isoVars>>

Perms(S) == {f \in [1..Cardinality(S) -> S] : \A a, b \in 1..Cardinality(S) : f[a] = f[b] => a = b}

\* the descriptors epoll_wait reports: level-triggered sockets with a queued
\* datagram, and the signal descriptor when a signal of its mask is pending
Ready ==
  {e \in DOMAIN sockq : sockq[e] # <<>>} \cup (IF pending \cap sigmask # {} THEN {SIGFD} ELSE {})

\* receive_datagrams: epoll_wait fails
RD_WaitFail ==
  /\ pc = "wait"
  /\ log' = Append(log, "Event queue reading failed")
  /\ MainReturn(FALSE, "queue")
  /\ UNCHANGED <<opts, step, sockq, sigmask, pending, timer, evs, i, cur, pl, owed,
                 drained, last, out, nArr, nErr>>
  /\ UNCHANGED <<backendVars, pubVars, isoVars>>

\* receive_datagrams: epoll_wait returns a batch of events: every ready
\* descriptor once, in any order (NumEps + 1 descriptors fit in the 64
\* events of evs)
RD_Wait ==
  /\ pc = "wait"
  /\ Ready # {}
  /\ \E order \in Perms(Ready) : evs' = order
  /\ i' = 1
  /\ pc' = "dispatch"
  /\ UNCHANGED <<opts, step, sockq, sigmask, pending, timer, cur, pl, owed, drained,
                 last, out, log, exitCode, why, flushed, freed, nArr, nErr>>
  /\ UNCHANGED <<backendVars, pubVars, isoVars>>

RD_Signal_Continue ==
  /\ pc = "dispatch"
  /\ evs[i] = SIGFD
  /\ i' = i + 1
  /\ pc' = IF i + 1 > Len(evs) THEN "wait" ELSE "dispatch"
  /\ UNCHANGED <<opts, step, sockq, sigmask, pending, timer, evs, cur, pl, owed,
                 drained, last, out, log, exitCode, why, flushed, freed, nArr, nErr>>
  /\ UNCHANGED <<backendVars, pubVars, isoVars>>

\* receive_datagrams: event i of the batch is the signal event
RD_Signal ==
  /\ pc = "dispatch"
  /\ evs[i] = SIGFD
  /\ MainReturn(SignalEventResult, "signal")
  /\ UNCHANGED <<opts, step, sockq, sigmask, pending, timer, evs, i, cur, pl, owed,
                 drained, last, out, log, nArr, nErr>>
  /\ UNCHANGED <<backendVars, pubVars, isoVars>>

\* sub_epoll.c, report_signal: read one signalfd_siginfo from the signal
\* descriptor; nbytes is what read returned
report_signal(nbytes) ==
  IF nbytes < 0 THEN FALSE
  ELSE IF nbytes # SizeofSsi THEN FALSE
  ELSE TRUE

\* read on the signal descriptor once epoll_wait has reported it readable:
\* a signal of the mask is pending, so one whole record is returned
ReadSigfd == IF pending \cap sigmask # {} THEN SizeofSsi ELSE RecvFailed

\* receive_events of sub_epoll.c: its loop is the loop of receive_datagrams
\* except for the signal event, where it returns what report_signal returns
\* and the read takes one pending signal off the descriptor
RE_Signal ==
  /\ pc = "dispatch"
  /\ evs[i] = SIGFD
  /\ \E sg \in pending \cap sigmask : pending' = pending \ {sg}
  /\ MainReturn(report_signal(ReadSigfd), "signal")
  /\ UNCHANGED <<opts, step, sockq, sigmask, timer, evs, i, cur, pl, owed,
                 drained, last, out, log, nArr, nErr>>
  /\ UNCHANGED <<backendVars, pubVars, isoVars>>

RD_Socket_Skip ==
  /\ pc = "dispatch"
  /\ evs[i] # SIGFD
  /\ i' = i + 1
  /\ pc' = IF i + 1 > Len(evs) THEN "wait" ELSE "dispatch"
  /\ UNCHANGED <<opts, step, sockq, sigmask, pending, timer, evs, cur, pl, owed,
                 drained, last, out, log, exitCode, why, flushed, freed, nArr, nErr>>
  /\ UNCHANGED <<backendVars, pubVars, isoVars>>

\* receive_datagrams: event i of the batch is a socket, handle_event starts
RD_Socket ==
  /\ pc = "dispatch"
  /\ evs[i] # SIGFD
  /\ cur' = evs[i]
  /\ owed' = Len(sockq[evs[i]])
  /\ drained' = 0
  /\ pl' = Uninit
  /\ last' = NoLast
  /\ pc' = "recv"
  /\ UNCHANGED <<opts, step, sockq, sigmask, pending, timer, evs, i, out, log,
                 exitCode, why, flushed, freed, nArr, nErr>>
  /\ UNCHANGED <<backendVars, pubVars, isoVars>>

\* the outcomes recvmsg(MSG_TRUNC | MSG_DONTWAIT) can have on endpoint e
RecvOutcomes_Blocking(e) ==
  (IF sockq[e] = <<>>
   THEN {}
   ELSE {[nbytes |-> Head(sockq[e]).len, errno |-> "", dg |-> Head(sockq[e])]})
  \cup (IF nErr < MaxRecvErrs
        THEN {[nbytes |-> RecvFailed, errno |-> "ENOMEM", dg |-> NoDgram]}
        ELSE {})

RecvOutcomes(e) ==
  (IF sockq[e] = <<>>
   THEN {[nbytes |-> RecvFailed, errno |-> "EAGAIN", dg |-> NoDgram]}
   ELSE {[nbytes |-> Head(sockq[e]).len, errno |-> "", dg |-> Head(sockq[e])]})
  \cup (IF nErr < MaxRecvErrs
        THEN {[nbytes |-> RecvFailed, errno |-> "ENOMEM", dg |-> NoDgram]}
        ELSE {})

\* handle_event: one pass of the read loop
HE_Pass ==
  /\ pc = "recv"
  /\ \E r \in RecvOutcomes(cur) : \E res \in {handle_event_pass(opts, cur, pl, r)} :
       LET got == r.nbytes # RecvFailed
       IN  /\ sockq' = IF got THEN [sockq EXCEPT ![cur] = Tail(@)] ELSE sockq
           /\ owed' = IF got /\ owed > 0 THEN owed - 1 ELSE owed
           /\ drained' = IF got THEN drained + 1 ELSE drained
           /\ nErr' = IF r.errno = "ENOMEM" THEN nErr + 1 ELSE nErr
           /\ pl' = res.pl
           /\ last' = res
           /\ out' = out \o res.printed
           /\ log' = log \o res.msgs
           /\ CASE res.ret = "continue" ->
                     /\ pc' = "recv"
                     /\ UNCHANGED <<i, exitCode, why, flushed, freed>>
                [] res.ret = "true" ->
                     /\ i' = i + 1
                     /\ pc' = IF i + 1 > Len(evs) THEN "wait" ELSE "dispatch"
                     /\ UNCHANGED <<exitCode, why, flushed, freed>>
                [] res.ret = "false" ->
                     /\ MainReturn(FALSE, "handler")
                     /\ UNCHANGED i
  /\ UNCHANGED <<opts, step, sigmask, pending, timer, evs, cur, nArr>>
  /\ UNCHANGED <<backendVars, pubVars, isoVars>>

\* ------------------------------------------------------------ environment
\* A datagram reaches the receive queue of endpoint e.  The program sees a
\* queue only in epoll_wait and recvmsg, so arrivals are taken right before
\* those calls.
Arrive ==
  /\ pc \in {"wait", "recv"}
  /\ nArr < MaxArrivals
  /\ \E e \in DOMAIN sockq, d \in Dgrams : sockq' = [sockq EXCEPT ![e] = Append(@, d)]
  /\ nArr' = nArr + 1
  /\ UNCHANGED <<opts, pc, step, sigmask, pending, timer, evs, i, cur, pl, owed,
                 drained, last, out, log, exitCode, why, flushed, freed, nErr>>
  /\ UNCHANGED <<backendVars, pubVars, isoVars>>

\* signal s is raised: it stays pending when blocked, otherwise its default
\* disposition ends the process.  The signal descriptor is readable as long
\* as any signal is pending, so a signal raised while another is pending
\* changes nothing the program sees.
Raise(s) ==
  IF s \in sigmask
  THEN pending' = pending \cup {s} /\ UNCHANGED pc
  ELSE pc' = "killed" /\ UNCHANGED pending

Signal ==
  /\ pc \in {"setup", "wait", "recv"}
  /\ pending = {}
  /\ \E s \in {"SIGINT", "SIGHUP"} : Raise(s)
  /\ UNCHANGED <<opts, step, sockq, sigmask, timer, evs, i, cur, pl, owed, drained,
                 last, out, log, exitCode, why, flushed, freed, nArr, nErr>>
  /\ UNCHANGED <<backendVars, pubVars, isoVars>>

\* the one-shot timer of install_alarm expires and raises SIGALRM.  The
\* signal is blocked, so the program sees it in epoll_wait only; an expiry
\* between two system calls is taken right before the next one.
TimerExpire ==
  /\ pc \in {"wait", "recv"}
  /\ timer = "armed"
  /\ timer' = "fired"
  /\ Raise("SIGALRM")
  /\ UNCHANGED <<opts, step, sockq, sigmask, evs, i, cur, pl, owed, drained, last,
                 out, log, exitCode, why, flushed, freed, nArr, nErr>>
  /\ UNCHANGED <<backendVars, pubVars, isoVars>>

Next ==
  \/ MainSetup
  \/ RD_Header
  \/ RD_WaitFail
  \/ RD_Wait
  \/ RD_Signal
  \/ RE_Signal
  \/ RD_Socket
  \/ HE_Pass
  \/ Arrive
  \/ Signal
  \/ TimerExpire

Spec == Init /\ [][Next]_vars

\* ------------------------------------------- one datagram, one handle_event
\* handle_event applied to every datagram of PassDgrams under every option
\* set of PassOpts: the subscriber is in its receive loop, epoll_wait has
\* reported endpoint 1 and the datagram is the only one queued on it.
KeyHigh == <<1, 0, 0, 0, 0, 0, 0, 42>>

Pow32 == <<0, 0, 0, 1, 0, 0, 0, 0>>

U64Max == <<255, 255, 255, 255, 255, 255, 255, 255>>

MagicSwapped == Reverse(MBEAT_PAYLOAD_MAGIC)

PassDgrams ==
  { Dgram(SizeofPayload, MBEAT_PAYLOAD_MAGIC, MBEAT_PAYLOAD_VERSION, k, n, t) :
      k \in {U64(0), U64(42), U64(99), KeyHigh}, n \in {U64(0), U64(1), U64(2), Pow32, U64Max},
      t \in {-1, 0, 64, 255, 256} }
  \cup
  { Dgram(len, m, v, U64(42), U64(1), 64) :
      len \in {0, SizeofPayload - 1, SizeofPayload, SizeofPayload + 1},
      m \in {MBEAT_PAYLOAD_MAGIC, BadMagic, MagicSwapped},
      v \in {1, MBEAT_PAYLOAD_VERSION, 3} }

PassOpts ==
  [so_err : {0, 1}, so_sid : {U64(0), U64(42), KeyHigh},
   so_off : {U64(0), U64(1), U64(2), Pow32}, so_raw : {0, 1}, so_tout : {0}]

InitPass ==
  /\ opts \in PassOpts
  /\ pc = "recv"
  /\ step = Len(SetupSteps)
  /\ \E d \in PassDgrams : sockq = [e \in Eps |-> IF e = 1 THEN <<d>> ELSE <<>>]
  /\ sigmask = SignalMask(opts)
  /\ pending = {}
  /\ timer = "off"
  /\ evs = <<1>>
  /\ i = 1
  /\ cur = 1
  /\ pl = Uninit
  /\ owed = 1
  /\ drained = 0
  /\ last = NoLast
  /\ out = IF opts.so_raw = 0 THEN <<[line |-> "header"]>> ELSE <<>>
  /\ log = <<>>
  /\ exitCode = -1
  /\ why = "none"
  /\ flushed = FALSE
  /\ freed = FALSE
  /\ nArr = 1
  /\ nErr = 0
  /\ sint = FALSE
  /\ shup = FALSE
  /\ eps = <<>>
  /\ pub_c = 0
  /\ pub_e = 0
  /\ sent = <<>>
  /\ slept = <<>>
  /\ calls = <<>>
  /\ script = <<>>
  /\ runs = <<>>

NextPass == HE_Pass

SpecPass == InitPass /\ [][NextPass]_vars

\* ------------------------------------------------ sub_pselect.c: backend
\* The pselect backend: endpoint e listens on descriptor e; evs is the
\* fd_set pselect filled in, i the loop index and cur the scan index k of
\* receive_events.  pc: "add_signal" (add_signal_events is about to run),
\* "call" (receive_events is about to call pselect), "wait" (blocked in
\* pselect), "eintr" (pselect returned EINTR), "scan" (the for loop),
\* "recv" (handle_event).  receive_events returns to its caller after one
\* batch; the caller calls it again as long as it returned true without
\* reporting a signal.
FD_SETSIZE == 1024

\* static sigset_t mask: never assigned, so it holds the zero bits of a
\* static object, the empty signal set
PselectMask == {}

PsSignals == {"SIGINT", "SIGHUP"}

\* signal_flags: the flags after the handler ran for signal sg
signal_flags(sg, f) ==
  [sint |-> f.sint \/ sg = "SIGINT", shup |-> f.shup \/ sg = "SIGHUP"]

\* the flags after the handler ran for every signal of set S
Delivered(S) ==
  [sint |-> sint \/ "SIGINT" \in S, shup |-> shup \/ "SIGHUP" \in S]

\* report_signal of sub_pselect.c
ps_report_signal(f) ==
  IF f.sint THEN TRUE
  ELSE IF f.shup THEN TRUE
  ELSE FALSE

\* the first descriptor of fd_set fds at or after k, FD_SETSIZE if none
ScanFrom(k, fds) ==
  IF \E f \in fds : f >= k
  THEN CHOOSE f \in fds : f >= k /\ \A g \in fds : g >= k => f <= g
  ELSE FD_SETSIZE

\* the process starts with the signal mask it inherits: nothing blocked,
\* or the termination signals blocked by whoever started it
InitPselect ==
  /\ opts \in OptsSet
  /\ opts.so_tout = 0
  /\ pc = "add_signal"
  /\ step = Len(SetupSteps)
  /\ sockq = [e \in Eps |-> <<>>]
  /\ sigmask \in {{}, PsSignals}
  /\ pending = {}
  /\ timer = "off"
  /\ evs = {}
  /\ i = 0
  /\ cur = 0
  /\ pl = Uninit
  /\ owed = 0
  /\ drained = 0
  /\ last = NoLast
  /\ out = <<>>
  /\ log = <<>>
  /\ exitCode = -1
  /\ why = "none"
  /\ flushed = FALSE
  /\ freed = FALSE
  /\ nArr = 0
  /\ nErr = 0
  /\ sint = FALSE
  /\ shup = FALSE
  /\ eps = <<>>
  /\ pub_c = 0
  /\ pub_e = 0
  /\ sent = <<>>
  /\ slept = <<>>
  /\ calls = <<>>
  /\ script = <<>>
  /\ runs = <<>>

\* add_signal_events: clear the flags and install signal_flags for SIGINT
\* and SIGHUP; a failed sigaction returns false.  The signal mask of the
\* process is left as it is.
PS_AddSignalEvents ==
  /\ pc = "add_signal"
  /\ \E ok \in BOOLEAN :
       IF ok
       THEN /\ pc' = "call"
            /\ UNCHANGED <<exitCode, why, flushed, freed>>
       ELSE MainReturn(FALSE, "setup")
  /\ sint' = FALSE
  /\ shup' = FALSE
  /\ UNCHANGED <<opts, step, sockq, sigmask, pending, timer, evs, i, cur, pl, owed,
                 drained, last, out, log, nArr, nErr, pubVars, isoVars>>

\* receive_events: pselect is entered.  The kernel replaces the signal
\* mask by PselectMask for the duration of the call: a pending signal the
\* new mask lets through is delivered now, its handler runs and pselect
\* returns EINTR; otherwise the process blocks.
PS_Enter ==
  /\ pc = "call"
  /\ LET now == pending \ PselectMask
         f == Delivered(now)
     IN  /\ pending' = pending \ now
         /\ sint' = f.sint
         /\ shup' = f.shup
         /\ pc' = IF now # {} THEN "eintr" ELSE "wait"
  /\ UNCHANGED <<opts, step, sockq, sigmask, timer, evs, i, cur, pl, owed, drained,
                 last, out, log, exitCode, why, flushed, freed, nArr, nErr,
                 pubVars, isoVars>>

\* pselect returns the ready descriptors: cnt is their number, k starts at 0
PS_Ready ==
  /\ pc = "wait"
  /\ \E e \in DOMAIN sockq : sockq[e] # <<>>
  /\ evs' = {e \in DOMAIN sockq : sockq[e] # <<>>}
  /\ i' = 0
  /\ cur' = 0
  /\ pc' = "scan"
  /\ UNCHANGED <<opts, step, sockq, sigmask, pending, timer, pl, owed, drained, last,
                 out, log, exitCode, why, flushed, freed, nArr, nErr, backendVars,
                 pubVars, isoVars>>

\* pselect fails with an error other than EINTR
PS_WaitFail ==
  /\ pc = "wait"
  /\ log' = Append(log, "Problem while waiting for events")
  /\ MainReturn(FALSE, "queue")
  /\ UNCHANGED <<opts, step, sockq, sigmask, pending, timer, evs, i, cur, pl, owed,
                 drained, last, out, nArr, nErr, backendVars, pubVars, isoVars>>

\* pselect returned EINTR: receive_events returns what report_signal returns
PS_Report ==
  /\ pc = "eintr"
  /\ LET r == ps_report_signal([sint |-> sint, shup |-> shup])
     IN  /\ MainReturn(r, "signal")
         /\ log' = IF r THEN log ELSE Append(log, "Unknown signal received")
  /\ UNCHANGED <<opts, step, sockq, sigmask, pending, timer, evs, i, cur, pl, owed,
                 drained, last, out, nArr, nErr, backendVars, pubVars, isoVars>>

\* receive_events: one turn of the for loop up to the call of handle_event.
\* k moves to the first set descriptor at or after it (it is not advanced
\* past a descriptor that was handled).
PS_Scan ==
  /\ pc = "scan"
  /\ LET k == ScanFrom(cur, evs)
     IN  IF k = FD_SETSIZE
         THEN /\ pc' = "call"
              /\ UNCHANGED <<cur, owed, drained, pl, last, log, exitCode, why, flushed,
                             freed>>
         ELSE IF k \notin DOMAIN sockq
         THEN /\ log' = Append(log, "Unable to find endpoint with socket")
              /\ MainReturn(FALSE, "handler")
              /\ UNCHANGED <<cur, owed, drained, pl, last>>
         ELSE /\ cur' = k
              /\ owed' = Len(sockq[k])
              /\ drained' = 0
              /\ pl' = Uninit
              /\ last' = NoLast
              /\ pc' = "recv"
              /\ UNCHANGED <<log, exitCode, why, flushed, freed>>
  /\ UNCHANGED <<opts, step, sockq, sigmask, pending, timer, evs, i, out, nArr, nErr,
                 backendVars, pubVars, isoVars>>

\* handle_event called from the for loop of receive_events: one pass of its
\* read loop.  When handle_event returns true the for loop goes on, and
\* after cnt turns receive_events returns true.
PS_Pass ==
  /\ pc = "recv"
  /\ \E r \in RecvOutcomes(cur) :
       LET res == handle_event_pass(opts, cur, pl, r)
           got == r.nbytes # RecvFailed
       IN  /\ sockq' = IF got THEN [sockq EXCEPT ![cur] = Tail(@)] ELSE sockq
           /\ owed' = IF got /\ owed > 0 THEN owed - 1 ELSE owed
           /\ drained' = IF got THEN drained + 1 ELSE drained
           /\ nErr' = IF r.errno = "ENOMEM" THEN nErr + 1 ELSE nErr
           /\ pl' = res.pl
           /\ last' = res
           /\ out' = out \o res.printed
           /\ log' = log \o res.msgs
           /\ CASE res.ret = "continue" ->
                     /\ pc' = "recv"
                     /\ UNCHANGED <<i, exitCode, why, flushed, freed>>
                [] res.ret = "true" ->
                     /\ i' = i + 1
                     /\ pc' = IF i + 1 < Cardinality(evs) THEN "scan" ELSE "call"
                     /\ UNCHANGED <<exitCode, why, flushed, freed>>
                [] res.ret = "false" ->
                     /\ MainReturn(FALSE, "handler")
                     /\ UNCHANGED i
  /\ UNCHANGED <<opts, step, sigmask, pending, timer, evs, cur, nArr, backendVars,
                 pubVars, isoVars>>

\* SIGINT or SIGHUP is raised after add_signal_events.  Blocked, it stays
\* pending.  Otherwise signal_flags runs at once, and a pselect the process
\* is blocked in returns EINTR.  (Inside pselect the mask is PselectMask.)
PS_Signal ==
  /\ pc \in {"call", "wait", "scan", "recv"}
  /\ pending = {}
  /\ \E sg \in PsSignals :
       LET blocked == IF pc = "wait" THEN PselectMask ELSE sigmask
           f == signal_flags(sg, [sint |-> sint, shup |-> shup])
       IN  IF sg \in blocked
           THEN /\ pending' = pending \cup {sg}
                /\ UNCHANGED <<sint, shup, pc>>
           ELSE /\ sint' = f.sint
                /\ shup' = f.shup
                /\ pc' = IF pc = "wait" THEN "eintr" ELSE pc
                /\ UNCHANGED pending
  /\ UNCHANGED <<opts, step, sockq, sigmask, timer, evs, i, cur, pl, owed, drained,
                 last, out, log, exitCode, why, flushed, freed, nArr, nErr,
                 pubVars, isoVars>>

NextPselect ==
  \/ PS_AddSignalEvents
  \/ PS_Enter
  \/ PS_Ready
  \/ PS_WaitFail
  \/ PS_Report
  \/ PS_Scan
  \/ PS_Pass
  \/ PS_Signal
  \/ Arrive

SpecPselect == InitPselect /\ [][NextPselect]_vars

\* ---------------------------------------------- progress of the subscriber
\* The subscriber of sub.c from create_signal_event on, with one endpoint
\* more than a batch of MaxEvents events holds, no failing recvmsg, and the
\* program and its timer running on: the receive loop's liveness.
LiveEps == 1..(NumEps + 1)

LiveOpts ==
  [so_err : {0}, so_sid : {U64(0)}, so_off : {U64(0)}, so_raw : {0}, so_tout : {0, 1}]

InitLive ==
  /\ opts \in LiveOpts
  /\ pc = "setup"
  /\ step = Len(SetupSteps) - 1
  /\ sockq = [e \in LiveEps |-> <<>>]
  /\ sigmask = {}
  /\ pending = {}
  /\ timer = "off"
  /\ evs = <<>>
  /\ i = 0
  /\ cur = 0
  /\ pl = Uninit
  /\ owed = 0
  /\ drained = 0
  /\ last = NoLast
  /\ out = <<>>
  /\ log = <<>>
  /\ exitCode = -1
  /\ why = "none"
  /\ flushed = FALSE
  /\ freed = FALSE
  /\ nArr = 0
  /\ nErr = MaxRecvErrs
  /\ sint = FALSE
  /\ shup = FALSE
  /\ eps = <<>>
  /\ pub_c = 0
  /\ pub_e = 0
  /\ sent = <<>>
  /\ slept = <<>>
  /\ calls = <<>>
  /\ script = <<>>
  /\ runs = <<>>

\* the batches epoll_wait can fill into an array of MaxEvents events: some
\* of the ready descriptors, in any order
Batches(S) ==
  UNION {Perms(B) : B \in {X \in SUBSET S : X # {} /\ Cardinality(X) <= MaxEvents}}

\* receive_datagrams: epoll_wait returns at most MaxEvents events
LV_Wait ==
  /\ pc = "wait"
  /\ Ready # {}
  /\ \E order \in Batches(Ready) : evs' = order
  /\ i' = 1
  /\ pc' = "dispatch"
  /\ UNCHANGED <<opts, step, sockq, sigmask, pending, timer, cur, pl, owed, drained,
                 last, out, log, exitCode, why, flushed, freed, nArr, nErr>>
  /\ UNCHANGED <<backendVars, pubVars, isoVars>>

\* a well-formed datagram reaches the receive queue of an endpoint
LV_Arrive ==
  /\ pc \in {"wait", "recv"}
  /\ nArr < MaxArrivals
  /\ \E e \in DOMAIN sockq : sockq' = [sockq EXCEPT ![e] = Append(@, Good(99, 1, -1))]
  /\ nArr' = nArr + 1
  /\ UNCHANGED <<opts, pc, step, sigmask, pending, timer, evs, i, cur, pl, owed,
                 drained, last, out, log, exitCode, why, flushed, freed, nErr>>
  /\ UNCHANGED <<backendVars, pubVars, isoVars>>

\* the steps the running program takes by itself
ProgStep ==
  MainSetup \/ RD_Header \/ LV_Wait \/ RD_Signal \/ RE_Signal \/ RD_Socket \/ HE_Pass

NextLive ==
  \/ MainSetup
  \/ RD_Header
  \/ RD_WaitFail
  \/ LV_Wait
  \/ RD_Signal
  \/ RE_Signal
  \/ RD_Socket
  \/ HE_Pass
  \/ LV_Arrive
  \/ Signal
  \/ TimerExpire

\* the program is never suspended for good and an armed timer expires
SpecLive ==
  InitLive /\ [][NextLive]_vars /\ WF_vars(ProgStep) /\ WF_vars(TimerExpire)

\* ------------------------------------------------------------ pub.c: codec
\* the uint32_t parameter snum of fill_payload: a uint64_t argument keeps
\* its low four bytes
Trunc32(x) == SubSeq(x, 5, 8)

\* a uint32_t promoted to the uint64_t parameter of htonll
Widen64(y) == <<0, 0, 0, 0>> \o y

htons(x) == Reverse(x)

htonl(x) == Reverse(x)

htonll(x) == Reverse(x)

\* the bytes of a host integer in memory, lowest address first
StoreLE(x) == Reverse(x)

\* c + op_off in uint64_t arithmetic
UAdd(a, b) == Tail(UAddExact(a, b))

Pow32m1 == <<0, 0, 0, 0, 255, 255, 255, 255>>

BigCount == <<0, 0, 0, 1, 0, 0, 0, 2>>

\* endpoint argument ep after parse_endpoint: the group 239.1.1.ep, whose
\* s_addr (network byte order in memory) the host reads as this integer,
\* and the interface name "eth" ep
EpMaddr(ep) == <<ep, 1, 1, 239>>

EpIname(ep) == <<101, 116, 104, 48 + ep>>

fill_payload_SlenFromSnum(o, ep, snum) ==
  [pl_magic |-> htonl(MBEAT_PAYLOAD_MAGIC), pl_fver |-> MBEAT_PAYLOAD_VERSION,
   pl_ttl |-> o.op_ttl, pl_mport |-> htons(o.op_port), pl_maddr |-> htonl(EpMaddr(ep)),
   pl_key |-> htonll(o.op_key), pl_snum |-> htonll(Widen64(Trunc32(snum))),
   pl_slen |-> htonll(Widen64(Trunc32(snum))), pl_iname |-> EpIname(ep),
   pl_rsec |-> htonll(o.clk_r), pl_msec |-> htonll(o.clk_m)]

\* fill_payload: the payload fields of the publisher as host integers.
\* clk_r and clk_m are the nanosecond readings of the wall clock and of the
\* monotonic clock.
fill_payload(o, ep, snum) ==
  [pl_magic |-> htonl(MBEAT_PAYLOAD_MAGIC), pl_fver |-> MBEAT_PAYLOAD_VERSION,
   pl_ttl |-> o.op_ttl, pl_mport |-> htons(o.op_port), pl_maddr |-> htonl(EpMaddr(ep)),
   pl_key |-> htonll(o.op_key), pl_snum |-> htonll(Widen64(Trunc32(snum))),
   pl_slen |-> htonll(o.op_cnt), pl_iname |-> EpIname(ep),
   pl_rsec |-> htonll(o.clk_r), pl_msec |-> htonll(o.clk_m)]

\* the datagram sendmsg puts on the wire for payload buffer p (the padding
\* is what memset left)
WireOf(p) ==
  [len |-> SizeofPayload, magic |-> StoreLE(p.pl_magic), fver |-> p.pl_fver,
   ttl |-> p.pl_ttl, mport |-> StoreLE(p.pl_mport), maddr |-> StoreLE(p.pl_maddr),
   pad |-> <<0, 0, 0, 0>>, rsec |-> StoreLE(p.pl_rsec), msec |-> StoreLE(p.pl_msec),
   key |-> StoreLE(p.pl_key), snum |-> StoreLE(p.pl_snum), slen |-> StoreLE(p.pl_slen),
   iname |-> p.pl_iname]

\* ------------------------------------------------------------- pub.c: main
\* The publisher: opts holds the op_ globals and ep_cnt as parse_args
\* leaves them, the endpoint arguments are numbered 1..ep_cnt in the order
\* of the command line, i is the loop index of parse_endpoints.
\* pc: "pub_setup", "parse_endpoints", "create_sockets", "round" (head of
\* the for loop over c), "send" (body of the loop over e), "exit".
PubOpts ==
  [op_cnt : {U64(1), U64(2), BigCount}, op_off : {U64(0), U64(1), Pow32m1, Pow32},
   op_err : {0, 1}, op_key : {U64(42)}, ep_cnt : 0..(NumEps + 1),
   op_slp : {U64(0), U64(1)}, op_ttl : {32}, op_port : {<<89, 215>>},
   clk_r : {<<0, 0, 0, 0, 0, 0, 0, 7>>}, clk_m : {<<0, 0, 0, 0, 0, 0, 0, 9>>}]

PubSetupSteps == <<"parse_args", "cache_hostname">>

InitPub ==
  /\ opts \in PubOpts
  /\ pc = "pub_setup"
  /\ step = 1
  /\ sockq = [e \in Eps |-> <<>>]
  /\ sigmask = {}
  /\ pending = {}
  /\ timer = "off"
  /\ evs = <<>>
  /\ i = 0
  /\ cur = 0
  /\ pl = Uninit
  /\ owed = 0
  /\ drained = 0
  /\ last = NoLast
  /\ out = <<>>
  /\ log = <<>>
  /\ exitCode = -1
  /\ why = "none"
  /\ flushed = FALSE
  /\ freed = FALSE
  /\ nArr = 0
  /\ nErr = 0
  /\ sint = FALSE
  /\ shup = FALSE
  /\ eps = <<>>
  /\ pub_c = 0
  /\ pub_e = 0
  /\ sent = <<>>
  /\ slept = <<>>
  /\ calls = <<>>
  /\ script = <<>>
  /\ runs = <<>>

\* main returns: only the path after publish_datagrams frees the endpoints
PubReturn(ok, reason) ==
  /\ pc' = "exit"
  /\ why' = reason
  /\ exitCode' = ExitCodeOf(ok)
  /\ freed' = (freed \/ ok)

\* main: parse_args, cache_hostname
PubSetup ==
  /\ pc = "pub_setup"
  /\ \E ok \in BOOLEAN :
       IF ~ok
       THEN PubReturn(FALSE, "setup") /\ UNCHANGED step
       ELSE /\ IF step = Len(PubSetupSteps)
               THEN pc' = "parse_endpoints" /\ step' = step
               ELSE pc' = pc /\ step' = step + 1
            /\ UNCHANGED <<exitCode, why, freed>>
  /\ UNCHANGED <<opts, sockq, sigmask, pending, timer, evs, i, cur, pl, owed, drained,
                 last, out, log, flushed, nArr, nErr, backendVars, pubVars, isoVars>>

\* parse_endpoints: without an endpoint argument it returns false; else
\* one turn of its loop: argument i + 1 is parsed and put at the head of
\* the list, or fails to parse and main returns
PE_Iter ==
  /\ pc = "parse_endpoints"
  /\ \E ok \in BOOLEAN :
       IF ~ok \/ opts.ep_cnt < 1
       THEN PubReturn(FALSE, "setup") /\ UNCHANGED <<eps, i>>
       ELSE /\ eps' = <<i + 1>> \o eps
            /\ i' = i + 1
            /\ pc' = IF i + 1 < opts.ep_cnt THEN "parse_endpoints" ELSE "create_sockets"
            /\ UNCHANGED <<exitCode, why, freed>>
  /\ UNCHANGED <<opts, step, sockq, sigmask, pending, timer, evs, cur, pl, owed,
                 drained, last, out, log, flushed, nArr, nErr, backendVars, isoVars,
                 pub_c, pub_e, sent, slept>>

\* main: create_sockets, then publish_datagrams starts with c = 0
PubSockets ==
  /\ pc = "create_sockets"
  /\ \E ok \in BOOLEAN :
       IF ~ok
       THEN PubReturn(FALSE, "setup") /\ UNCHANGED pub_c
       ELSE /\ pc' = "round"
            /\ pub_c' = 0
            /\ UNCHANGED <<exitCode, why, freed>>
  /\ UNCHANGED <<opts, step, sockq, sigmask, pending, timer, evs, i, cur, pl, owed,
                 drained, last, out, log, flushed, nArr, nErr, backendVars, isoVars,
                 eps, pub_e, sent, slept>>

\* publish_datagrams: the test c < op_cnt: a new round starts at the head
\* of the list, or all rounds are done and main frees the endpoints
PB_Round ==
  /\ pc = "round"
  /\ ULt(U64(pub_c), opts.op_cnt) => pub_c < MaxRounds
  /\ IF ULt(U64(pub_c), opts.op_cnt)
     THEN /\ pub_e' = 1
          /\ pc' = "send"
          /\ UNCHANGED <<exitCode, why, freed>>
     ELSE /\ PubReturn(TRUE, "done")
          /\ UNCHANGED pub_e
  /\ UNCHANGED <<opts, step, sockq, sigmask, pending, timer, evs, i, cur, pl, owed,
                 drained, last, out, log, flushed, nArr, nErr, backendVars, isoVars,
                 eps, pub_c, sent, slept>>

\* what sendmsg can return for a datagram of SizeofPayload bytes
SendOutcomes == {SizeofPayload} \cup (IF nErr < MaxSendErrs THEN {RecvFailed} ELSE {})

\* the test publish_datagrams applies to the return value of sendmsg
SendFailed(ret) == ret = 0

SleepsAfter_EveryRound(o, c) == ULt(U64Zero, o.op_slp)

\* publish_datagrams: the test made after the sends of round c: whether
\* nanosleep is called before the next round
SleepsAfter(o, c) == ULt(U64Zero, o.op_slp) /\ U64(c) # USub(o.op_cnt, U64(1))

\* publish_datagrams: the body of the loop over e: fill_payload, sendmsg,
\* the test of its result and the step to the next endpoint; after the
\* last endpoint the round is over: the process sleeps if SleepsAfter says
\* so, and c is incremented
PB_Send ==
  /\ pc = "send"
  /\ \E ret \in SendOutcomes :
       LET ep == eps[pub_e]
           dg == WireOf(fill_payload(opts, ep, UAdd(U64(pub_c), opts.op_off)))
           bad == SendFailed(ret)
       IN  /\ sent' = Append(sent, [round |-> pub_c, ep |-> ep, ret |-> ret, dg |-> dg])
           /\ nErr' = IF ret = RecvFailed THEN nErr + 1 ELSE nErr
           /\ log' = IF bad THEN Append(log, "Unable to publish datagram") ELSE log
           /\ IF bad /\ opts.op_err = 1
              THEN /\ PubReturn(FALSE, "send")
                   /\ UNCHANGED <<pub_e, pub_c, slept>>
              ELSE /\ IF pub_e < Len(eps)
                      THEN pub_e' = pub_e + 1 /\ pc' = "send" /\ UNCHANGED <<pub_c, slept>>
                      ELSE /\ pub_e' = pub_e
                           /\ pc' = "round"
                           /\ slept' = IF SleepsAfter(opts, pub_c)
                                        THEN Append(slept, pub_c) ELSE slept
                           /\ pub_c' = pub_c + 1
                   /\ UNCHANGED <<exitCode, why, freed>>
  /\ UNCHANGED <<opts, step, sockq, sigmask, pending, timer, evs, i, cur, pl, owed,
                 drained, last, out, flushed, nArr, backendVars, isoVars, eps>>

NextPub ==
  \/ PubSetup
  \/ PE_Iter
  \/ PubSockets
  \/ PB_Round
  \/ PB_Send

SpecPub == InitPub /\ [][NextPub]_vars

\* ------------------------------------------------------ create_sockets
\* create_sockets of sub.c and of pub.c, one system call at a time, each
\* call succeeding or failing; calls records the calls made with the value
\* handed to the system.

\* (int)x for a uint64_t x: the low 32 bits as a two's complement number
CastInt(x) ==
  (IF x[5] >= 128 THEN x[5] - 256 ELSE x[5]) * 16777216 + x[6] * 65536 + x[7] * 256 + x[8]

\* the int v is the 64-bit size x
SameSize(x, v) == SubSeq(x, 1, 4) = <<0, 0, 0, 0>> /\ x[5] < 128 /\ CastInt(x) = v

BufSizes ==
  {U64(0), U64(128), <<0, 0, 0, 0, 0, 1, 0, 0>>, <<0, 0, 0, 0, 128, 0, 0, 0>>, Pow32,
   <<0, 0, 0, 1, 0, 0, 0, 128>>, U64Max}

SockOpts == [prog : {"sub", "pub"}, buf : BufSizes, ep_cnt : 1..(NumEps + 1)]

\* the calls of one turn of the for loop, in order, with the message of
\* their failure; the buffer size is set only under so_buf != 0
\* (op_buf != 0)
LoopBody(o) ==
  LET sized == IF o.buf # U64Zero THEN <<CastInt(o.buf)>> ELSE <<>>
  IN  IF o.prog = "sub"
      THEN <<[call |-> "socket", val |-> 0, msg |-> "Unable to create socket"],
             [call |-> "SO_REUSEADDR", val |-> 1,
              msg |-> "Unable to make the socket address reusable"],
             [call |-> "IP_RECVTTL", val |-> 1,
              msg |-> "Unable to request Time-To-Live information"]>>
           \o [k \in 1..Len(sized) |->
                 [call |-> "SO_RCVBUF", val |-> sized[k],
                  msg |-> "Unable to set the socket receive buffer size"]]
           \o <<[call |-> "bind", val |-> 0, msg |-> "Unable to bind to address"],
                [call |-> "IP_ADD_MEMBERSHIP", val |-> 0,
                 msg |-> "Unable to join multicast group"]>>
      ELSE <<[call |-> "socket", val |-> 0, msg |-> "Unable to create socket"],
             [call |-> "SO_REUSEADDR", val |-> 1,
              msg |-> "Unable to set the socket address reusable"]>>
           \o [k \in 1..Len(sized) |->
                 [call |-> "SO_SNDBUF", val |-> sized[k],
                  msg |-> "Unable to set the socket send buffer size"]]
           \o <<[call |-> "IP_MULTICAST_IF", val |-> 0,
                 msg |-> "Unable to set the socket interface"],
                [call |-> "IP_MULTICAST_LOOP", val |-> 0,
                 msg |-> "Unable to turn the localhost datagram delivery"],
                [call |-> "IP_MULTICAST_TTL", val |-> 32,
                 msg |-> "Unable to set Time-To-Live of datagrams"]>>

InitSockets ==
  /\ opts \in SockOpts
  /\ pc = "cs_for"
  /\ step = 0
  /\ sockq = [e \in Eps |-> <<>>]
  /\ sigmask = {}
  /\ pending = {}
  /\ timer = "off"
  /\ evs = <<>>
  /\ i = 0
  /\ cur = 1
  /\ pl = Uninit
  /\ owed = 0
  /\ drained = 0
  /\ last = NoLast
  /\ out = <<>>
  /\ log = <<>>
  /\ exitCode = -1
  /\ why = "none"
  /\ flushed = FALSE
  /\ freed = FALSE
  /\ nArr = 0
  /\ nErr = 0
  /\ sint = FALSE
  /\ shup = FALSE
  /\ eps = <<>>
  /\ pub_c = 0
  /\ pub_e = 0
  /\ sent = <<>>
  /\ slept = <<>>
  /\ calls = <<>>
  /\ script = <<>>
  /\ runs = <<>>

\* the test ep != NULL of the for loop: the next turn starts, or the list
\* is at its end and create_sockets returns true
CS_For ==
  /\ pc = "cs_for"
  /\ IF cur <= opts.ep_cnt
     THEN pc' = "cs_call" /\ step' = 1
     ELSE pc' = "cs_true" /\ step' = step
  /\ UNCHANGED <<opts, sockq, sigmask, pending, timer, evs, i, cur, pl, owed, drained,
                 last, out, log, exitCode, why, flushed, freed, nArr, nErr,
                 backendVars, pubVars, calls, script, runs>>

\* one call of the turn: it succeeds and the next statement follows, or it
\* returns -1, the message is written and create_sockets returns false
CS_Call ==
  /\ pc = "cs_call"
  /\ \E ok \in BOOLEAN :
       LET c == LoopBody(opts)[step]
       IN  /\ calls' = Append(calls, [ep |-> cur, call |-> c.call, val |-> c.val, ok |-> ok])
           /\ IF ~ok
              THEN /\ log' = Append(log, c.msg)
                   /\ pc' = "cs_false"
                   /\ UNCHANGED <<step, cur>>
              ELSE /\ log' = log
                   /\ IF step < Len(LoopBody(opts))
                      THEN pc' = pc /\ step' = step + 1 /\ cur' = cur
                      ELSE pc' = "cs_for" /\ step' = step /\ cur' = cur + 1
  /\ UNCHANGED <<opts, sockq, sigmask, pending, timer, evs, i, pl, owed, drained,
                 last, out, exitCode, why, flushed, freed, nArr, nErr,
                 backendVars, pubVars, script, runs>>

NextSockets ==
  \/ CS_For
  \/ CS_Call

SpecSockets == InitSockets /\ [][NextSockets]_vars

\* ----------------------------------------- receive_events, per backend
\* receive_events of sub_epoll.c, sub_kqueue.c and sub_pselect.c, each
\* called once and fed the same script: the wake-ups of the event queue in
\* order, each one a set of readable sockets, a termination signal or a
\* failure of the wait.  Endpoint e listens on descriptor e; the event
\* array of epoll_wait and kevent lists the sockets in ascending order, the
\* order in which pselect's set is scanned.  handle_event returns false on
\* the endpoints of the set bad and true on the others.
BeEps == 1..(NumEps + 1)

Wakeups ==
  [kind : {"sockets"}, ready : (SUBSET BeEps) \ {{}}]
    \cup [kind : {"signal", "fail"}, ready : {{}}]

Scripts == UNION {[1..n -> Wakeups] : n \in 0..MaxWakeups}

Asc(S) ==
  CHOOSE f \in [1..Cardinality(S) -> S] : \A a, b \in 1..Cardinality(S) : a < b => f[a] < f[b]

\* the events epoll_wait and kevent store for wake-up w
EventsOf(w) == IF w.kind = "signal" THEN <<SIGFD>> ELSE Asc(w.ready)

\* ret: "true" / "false" (receive_events returned), "next" (the batch is
\* done), "waiting" (blocked in the wait, the script being at its end);
\* on: the statement that returned; handled: the endpoints handle_event
\* was called on
RECURSIVE EpollFor(_, _, _, _)
EpollFor(ev, j, bad, h) ==
  IF j > Len(ev) THEN [ret |-> "next", on |-> "batch_end", handled |-> h]
  ELSE IF ev[j] = SIGFD
  THEN [ret |-> IF report_signal(SizeofSsi) THEN "true" ELSE "false", on |-> "signal",
        handled |-> h]
  ELSE IF ev[j] \in bad
  THEN [ret |-> "false", on |-> "handler", handled |-> Append(h, ev[j])]
  ELSE EpollFor(ev, j + 1, bad, Append(h, ev[j]))

\* sub_epoll.c: the while (1) loop from wake-up k on
RECURSIVE epoll_receive_events(_, _, _, _)
epoll_receive_events(sc, k, bad, h) ==
  IF k > Len(sc) THEN [ret |-> "waiting", on |-> "none", handled |-> h]
  ELSE IF sc[k].kind = "fail"
  THEN [ret |-> "false", on |-> "wait_failed", handled |-> h]
  ELSE LET r == EpollFor(EventsOf(sc[k]), 1, bad, h)
       IN  IF r.ret = "next" THEN epoll_receive_events(sc, k + 1, bad, r.handled) ELSE r

\* report_signal of sub_kqueue.c
kq_report_signal == TRUE

RECURSIVE KqueueFor(_, _, _, _)
KqueueFor(ev, j, bad, h) ==
  IF j > Len(ev) THEN [ret |-> "true", on |-> "batch_end", handled |-> h]
  ELSE IF ev[j] = SIGFD
  THEN [ret |-> IF kq_report_signal THEN "true" ELSE "false", on |-> "signal",
        handled |-> h]
  ELSE IF ev[j] \in bad
  THEN [ret |-> "false", on |-> "handler", handled |-> Append(h, ev[j])]
  ELSE KqueueFor(ev, j + 1, bad, Append(h, ev[j]))

\* sub_kqueue.c: one kevent call, the for loop, return true
kqueue_receive_events(sc, bad) ==
  IF sc = <<>> THEN [ret |-> "waiting", on |-> "none", handled |-> <<>>]
  ELSE IF sc[1].kind = "fail"
  THEN [ret |-> "false", on |-> "wait_failed", handled |-> <<>>]
  ELSE KqueueFor(EventsOf(sc[1]), 1, bad, <<>>)

\* sub_pselect.c: the for loop with cnt descriptors set in evs; k is set
\* by the scan only and not moved past a handled descriptor
RECURSIVE PselectFor(_, _, _, _, _, _)
PselectFor(fds, cnt, j, k, bad, h) ==
  IF j >= cnt THEN [ret |-> "true", on |-> "batch_end", handled |-> h]
  ELSE LET k2 == ScanFrom(k, fds)
       IN  IF k2 = FD_SETSIZE THEN [ret |-> "true", on |-> "batch_end", handled |-> h]
           ELSE IF k2 \notin BeEps THEN [ret |-> "false", on |-> "handler", handled |-> h]
           ELSE IF k2 \in bad
           THEN [ret |-> "false", on |-> "handler", handled |-> Append(h, k2)]
           ELSE PselectFor(fds, cnt, j + 1, k2, bad, Append(h, k2))

\* sub_pselect.c: one pselect call; a signal interrupts it, the handler
\* having set its flag
pselect_receive_events(sc, bad) ==
  IF sc = <<>> THEN [ret |-> "waiting", on |-> "none", handled |-> <<>>]
  ELSE IF sc[1].kind = "signal"
  THEN [ret |-> IF ps_report_signal([sint |-> TRUE, shup |-> FALSE]) THEN "true" ELSE "false",
        on |-> "signal", handled |-> <<>>]
  ELSE IF sc[1].kind = "fail"
  THEN [ret |-> "false", on |-> "wait_failed", handled |-> <<>>]
  ELSE PselectFor(sc[1].ready, Cardinality(sc[1].ready), 0, 0, bad, <<>>)

InitBackends ==
  /\ opts \in [bad : SUBSET BeEps]
  /\ pc = "backends"
  /\ step = 0
  /\ sockq = [e \in BeEps |-> <<>>]
  /\ sigmask = {}
  /\ pending = {}
  /\ timer = "off"
  /\ evs = <<>>
  /\ i = 0
  /\ cur = 0
  /\ pl = Uninit
  /\ owed = 0
  /\ drained = 0
  /\ last = NoLast
  /\ out = <<>>
  /\ log = <<>>
  /\ exitCode = -1
  /\ why = "none"
  /\ flushed = FALSE
  /\ freed = FALSE
  /\ nArr = 0
  /\ nErr = 0
  /\ sint = FALSE
  /\ shup = FALSE
  /\ eps = <<>>
  /\ pub_c = 0
  /\ pub_e = 0
  /\ sent = <<>>
  /\ slept = <<>>
  /\ calls = <<>>
  /\ script \in Scripts
  /\ runs = <<>>

Ran(b) == \E k \in 1..Len(runs) : runs[k].backend = b

BE_Epoll ==
  /\ pc = "backends"
  /\ ~Ran("epoll")
  /\ runs' = Append(runs, [backend |-> "epoll"] @@ epoll_receive_events(script, 1, opts.bad, <<>>))
  /\ UNCHANGED <<opts, pc, step, sockq, sigmask, pending, timer, evs, i, cur, pl, owed,
                 drained, last, out, log, exitCode, why, flushed, freed, nArr, nErr,
                 backendVars, pubVars, calls, script>>

BE_Kqueue ==
  /\ pc = "backends"
  /\ ~Ran("kqueue")
  /\ runs' = Append(runs, [backend |-> "kqueue"] @@ kqueue_receive_events(script, opts.bad))
  /\ UNCHANGED <<opts, pc, step, sockq, sigmask, pending, timer, evs, i, cur, pl, owed,
                 drained, last, out, log, exitCode, why, flushed, freed, nArr, nErr,
                 backendVars, pubVars, calls, script>>

BE_Pselect ==
  /\ pc = "backends"
  /\ ~Ran("pselect")
  /\ runs' = Append(runs, [backend |-> "pselect"] @@ pselect_receive_events(script, opts.bad))
  /\ UNCHANGED <<opts, pc, step, sockq, sigmask, pending, timer, evs, i, cur, pl, owed,
                 drained, last, out, log, exitCode, why, flushed, freed, nArr, nErr,
                 backendVars, pubVars, calls, script>>

NextBackends ==
  \/ BE_Epoll
  \/ BE_Kqueue
  \/ BE_Pselect

SpecBackends == InitBackends /\ [][NextBackends]_vars

\* ------------------------------------------- handle_event: the read loop
\* handle_event called on an endpoint whose socket holds up to MaxArrivals
\* datagrams, well-formed or not, with nothing arriving while it runs;
\* recvmsg fails with ENOMEM at most MaxRecvErrs times.  The program is not
\* suspended for good inside the loop.
DrainOpts ==
  [so_err : {0, 1}, so_sid : {U64(0)}, so_off : {U64(0)}, so_raw : {0, 1}, so_tout : {0}]

DrainQueues == UNION {[1..n -> Dgrams] : n \in 0..MaxArrivals}

InitDrain ==
  /\ opts \in DrainOpts
  /\ pc = "recv"
  /\ step = Len(SetupSteps)
  /\ \E q \in DrainQueues : sockq = [e \in Eps |-> IF e = 1 THEN q ELSE <<>>]
  /\ sigmask = SignalMask(opts)
  /\ pending = {}
  /\ timer = "off"
  /\ evs = <<1>>
  /\ i = 1
  /\ cur = 1
  /\ pl = Uninit
  /\ owed = Len(sockq[1])
  /\ drained = 0
  /\ last = NoLast
  /\ out = IF opts.so_raw = 0 THEN <<[line |-> "header"]>> ELSE <<>>
  /\ log = <<>>
  /\ exitCode = -1
  /\ why = "none"
  /\ flushed = FALSE
  /\ freed = FALSE
  /\ nArr = Len(sockq[1])
  /\ nErr = 0
  /\ sint = FALSE
  /\ shup = FALSE
  /\ eps = <<>>
  /\ pub_c = 0
  /\ pub_e = 0
  /\ sent = <<>>
  /\ slept = <<>>
  /\ calls = <<>>
  /\ script = <<>>
  /\ runs = <<>>

NextDrain == HE_Pass

SpecDrain == InitDrain /\ [][NextDrain]_vars /\ WF_vars(HE_Pass)

\* ------------------------------------------------ signal registration
\* The signal registration of each build, one call at a time:
\* create_signal_event of sub.c on Linux and on FreeBSD, add_signal_events
\* of sub_kqueue.c and of sub_pselect.c.  calls records each call with the
\* signals it names.
Timeouts == {0, 1, 1000, 60000, 3600000}

SigBuilds == {"sub_linux", "sub_freebsd", "kqueue", "pselect"}

SigOpts == [build : SigBuilds, so_tout : Timeouts, inherited : {{}, {"SIGINT", "SIGHUP"}}]

\* the signals add_signal_events of sub_kqueue.c adds to the queue
KqSignals == {"SIGINT", "SIGHUP"}

Each(call, S) ==
  LET one == IF "SIGINT" \in S THEN <<[call |-> call, val |-> {"SIGINT"}, fails |-> TRUE]>> ELSE <<>>
      two == IF "SIGHUP" \in S THEN <<[call |-> call, val |-> {"SIGHUP"}, fails |-> TRUE]>> ELSE <<>>
      three == IF "SIGALRM" \in S THEN <<[call |-> call, val |-> {"SIGALRM"}, fails |-> TRUE]>> ELSE <<>>
  IN  one \o two \o three

\* the calls of the registration in order; fails: the call's result is
\* tested
RegCalls(o) ==
  CASE o.build = "sub_linux" ->
         <<[call |-> "sigprocmask", val |-> SignalMask(o), fails |-> FALSE],
           [call |-> "signalfd", val |-> SignalMask(o), fails |-> TRUE],
           [call |-> "epoll_ctl", val |-> {}, fails |-> TRUE]>>
    [] o.build = "sub_freebsd" ->
         <<[call |-> "sigprocmask", val |-> SignalMask(o), fails |-> FALSE]>>
           \o Each("kevent", SignalMask(o))
    [] o.build = "kqueue" -> Each("kevent", KqSignals)
    [] o.build = "pselect" -> Each("sigaction", PsSignals)

\* add_signal_events of sub_kqueue.c ends without a return statement: its
\* caller reads a value the function never set
RegResults(o) == IF o.build = "kqueue" THEN {"sg_true", "sg_false"} ELSE {"sg_true"}

InitSignals ==
  /\ opts \in SigOpts
  /\ pc = "sg_call"
  /\ step = 1
  /\ sockq = [e \in Eps |-> <<>>]
  /\ sigmask = opts.inherited
  /\ pending = {}
  /\ timer = "off"
  /\ evs = <<>>
  /\ i = 0
  /\ cur = 0
  /\ pl = Uninit
  /\ owed = 0
  /\ drained = 0
  /\ last = NoLast
  /\ out = <<>>
  /\ log = <<>>
  /\ exitCode = -1
  /\ why = "none"
  /\ flushed = FALSE
  /\ freed = FALSE
  /\ nArr = 0
  /\ nErr = 0
  /\ sint = FALSE
  /\ shup = FALSE
  /\ eps = <<>>
  /\ pub_c = 0
  /\ pub_e = 0
  /\ sent = <<>>
  /\ slept = <<>>
  /\ calls = <<>>
  /\ script = <<>>
  /\ runs = <<>>

\* one call of the registration: it fails and the function returns false,
\* or the next call follows, or the function is at its end
SG_Call ==
  /\ pc = "sg_call"
  /\ LET c == RegCalls(opts)[step]
     IN  \E ok \in (IF c.fails THEN BOOLEAN ELSE {TRUE}) :
           /\ calls' = Append(calls, [ep |-> 0, call |-> c.call, val |-> c.val, ok |-> ok])
           /\ sigmask' = IF c.call = "sigprocmask" THEN sigmask \cup c.val ELSE sigmask
           /\ IF ~ok THEN pc' = "sg_false" /\ step' = step
              ELSE IF step < Len(RegCalls(opts)) THEN pc' = pc /\ step' = step + 1
              ELSE pc' \in RegResults(opts) /\ step' = step
  /\ UNCHANGED <<opts, sockq, pending, timer, evs, i, cur, pl, owed, drained,
                 last, out, log, exitCode, why, flushed, freed, nArr, nErr,
                 backendVars, pubVars, script, runs>>

NextSignals == SG_Call

SpecSignals == InitSignals /\ [][NextSignals]_vars

\* ------------------------------------------------- the two programs
\* One run of either program from the start of its main: msub with the
\* options of OptsSet or mpub with those of PubOpts.  The positions of the
\* two programs have different names, so each run takes the steps of its
\* own program only.
IsSub(o) == "so_tout" \in DOMAIN o

InitMain == Init \/ InitPub

NextMain ==
  \/ MainSetup
  \/ RD_Header
  \/ RD_WaitFail
  \/ RD_Wait
  \/ RD_Signal
  \/ RE_Signal
  \/ RD_Socket
  \/ HE_Pass
  \/ Arrive
  \/ Signal
  \/ TimerExpire
  \/ PubSetup
  \/ PE_Iter
  \/ PubSockets
  \/ PB_Round
  \/ PB_Send

SpecMain == InitMain /\ [][NextMain]_vars

\* ------------------------------------------- publisher to subscriber
\* One publisher with one endpoint and one subscriber listening on the same
\* group, joined by a network that keeps every datagram and their order
\* and alters the magic of at most MaxNoise of them.  The subscriber is in
\* receive_datagrams and recvmsg fails with EAGAIN only; the publisher has
\* passed its setup and runs up to MaxRounds + 1 rounds, so that a datagram
\* can arrive between two others.

\* what recvmsg stores for the wire datagram w that arrived with the TTL
\* control message t: the member pl_sid of sub.c lies on the key
Received(w, t) == [sid |-> w.key, cttl |-> t] @@ w

E2EOpts ==
  [op_cnt : {U64(n) : n \in 1..(MaxRounds + 1)}, op_off : {U64(0)}, op_err : {0},
   op_key : {U64(42), KeyHigh}, ep_cnt : {1}, op_slp : {U64(0)}, op_ttl : {32},
   op_port : {<<89, 215>>}, clk_r : {<<0, 0, 0, 0, 0, 0, 0, 7>>},
   clk_m : {<<0, 0, 0, 0, 0, 0, 0, 9>>},
   so_err : {0, 1}, so_sid : {U64(0)}, so_off : {U64(f) : f \in 0..MaxRounds},
   so_raw : {0, 1}, so_tout : {0}]

InitE2E ==
  /\ opts \in E2EOpts
  /\ pc = "header"
  /\ step = Len(SetupSteps)
  /\ sockq = [e \in {1} |-> <<>>]
  /\ sigmask = SignalMask(opts)
  /\ pending = {}
  /\ timer = "off"
  /\ evs = <<>>
  /\ i = 0
  /\ cur = 0
  /\ pl = Uninit
  /\ owed = 0
  /\ drained = 0
  /\ last = NoLast
  /\ out = <<>>
  /\ log = <<>>
  /\ exitCode = -1
  /\ why = "none"
  /\ flushed = FALSE
  /\ freed = FALSE
  /\ nArr = 0
  /\ nErr = MaxRecvErrs
  /\ sint = FALSE
  /\ shup = FALSE
  /\ eps = <<1>>
  /\ pub_c = 0
  /\ pub_e = 1
  /\ sent = <<>>
  /\ slept = <<>>
  /\ calls = <<>>
  /\ script = <<>>
  /\ runs = <<>>

Noisy == SelectSeq(sent, LAMBDA x : x.noise)

\* publish_datagrams with one endpoint: round c from the test c < op_cnt to
\* c++, with sendmsg accepting the datagram, and the network delivering it
\* to the subscriber's socket, altered or not.  The subscriber sees its
\* queue only in epoll_wait and recvmsg, so a delivery is taken right
\* before these calls.
E2E_Publish ==
  /\ pc \in {"wait", "recv"}
  /\ ULt(U64(pub_c), opts.op_cnt)
  /\ \E noise \in (IF Len(Noisy) < MaxNoise THEN BOOLEAN ELSE {FALSE}) :
       LET dg == WireOf(fill_payload(opts, eps[pub_e], UAdd(U64(pub_c), opts.op_off)))
           w == IF noise THEN [dg EXCEPT !.magic = BadMagic] ELSE dg
       IN  /\ sent' = Append(sent, [round |-> pub_c, ep |-> eps[pub_e],
                                    ret |-> SizeofPayload, dg |-> dg, noise |-> noise])
           /\ sockq' = [sockq EXCEPT ![eps[pub_e]] = Append(@, Received(w, 64))]
  /\ slept' = IF SleepsAfter(opts, pub_c) THEN Append(slept, pub_c) ELSE slept
  /\ pub_c' = pub_c + 1
  /\ nArr' = nArr + 1
  /\ UNCHANGED <<opts, pc, step, sigmask, pending, timer, evs, i, cur, pl, owed,
                 drained, last, out, log, exitCode, why, flushed, freed, nErr,
                 backendVars, isoVars, eps, pub_e>>

NextE2E ==
  \/ E2E_Publish
  \/ RD_Header
  \/ RD_Wait
  \/ RD_Socket
  \/ HE_Pass

SpecE2E == InitE2E /\ [][NextE2E]_vars

\* ------------------------------------------------- the publisher's key
\* The key of a publisher run from parse_args to a subscriber's filter:
\* generate_key sets the default, -k may replace it, fill_payload sends it
\* and a subscriber with some -s filter reads the datagram.

\* results of lrand48: 31-bit numbers, as four bytes
Rand31 == {<<0, 0, 0, 0>>, <<0, 0, 0, 1>>, <<0, 0, 0, 42>>, <<1, 0, 0, 0>>, <<127, 255, 255, 255>>}

\* (uint64_t)lo | ((uint64_t)hi << 32)
KeyOf(lo, hi) == hi \o lo

KeepDrawing_Never(key) == FALSE

\* the test of the do-while loop of generate_key
KeepDrawing(key) == key = U64Zero

\* parse_uint64 on a string that reads as the number x
parse_uint64(x, min, max) == ~(ULt(x, min) \/ ULt(max, x))

\* the numbers given with -k
KeyArgs == {U64(0), U64(1), U64(42), KeyHigh, Pow32, U64Max}

KeyOpts ==
  [op_cnt : {U64(1)}, op_off : {U64(0)}, op_err : {0}, op_key : {U64Zero}, ep_cnt : {1},
   op_slp : {U64(0)}, op_ttl : {32}, op_port : {<<89, 215>>},
   clk_r : {<<0, 0, 0, 0, 0, 0, 0, 7>>}, clk_m : {<<0, 0, 0, 0, 0, 0, 0, 9>>},
   so_err : {0}, so_sid : {U64Zero}, so_off : {U64(0)}, so_raw : {0, 1}, so_tout : {0}]

InitKey ==
  /\ opts \in KeyOpts
  /\ pc = "key_default"
  /\ step = 0
  /\ sockq = [e \in {1} |-> <<>>]
  /\ sigmask = {}
  /\ pending = {}
  /\ timer = "off"
  /\ evs = <<>>
  /\ i = 0
  /\ cur = 0
  /\ pl = Uninit
  /\ owed = 0
  /\ drained = 0
  /\ last = NoLast
  /\ out = <<>>
  /\ log = <<>>
  /\ exitCode = -1
  /\ why = "none"
  /\ flushed = FALSE
  /\ freed = FALSE
  /\ nArr = 0
  /\ nErr = MaxRecvErrs
  /\ sint = FALSE
  /\ shup = FALSE
  /\ eps = <<1>>
  /\ pub_c = 0
  /\ pub_e = 1
  /\ sent = <<>>
  /\ slept = <<>>
  /\ calls = <<>>
  /\ script = <<>>
  /\ runs = <<>>

\* parse_args: op_key = generate_key(), one turn of its do-while loop
KY_Generate ==
  /\ pc = "key_default"
  /\ \E lo \in Rand31, hi \in Rand31 :
       /\ calls' = Append(calls, [ep |-> 0, call |-> "lrand48", val |-> KeyOf(lo, hi), ok |-> TRUE])
       /\ IF KeepDrawing(KeyOf(lo, hi))
          THEN pc' = pc /\ opts' = opts
          ELSE pc' = "key_option" /\ opts' = [opts EXCEPT !.op_key = KeyOf(lo, hi)]
  /\ Len(calls) < MaxDraws
  /\ UNCHANGED <<step, sockq, sigmask, pending, timer, evs, i, cur, pl, owed, drained,
                 last, out, log, exitCode, why, flushed, freed, nArr, nErr,
                 backendVars, pubVars, script, runs>>

\* parse_args: no -k, or -k with a number, which parse_uint64 accepts from
\* 1 to UINT64_MAX
KY_Option ==
  /\ pc = "key_option"
  /\ \/ pc' = "key_send" /\ UNCHANGED <<opts, exitCode, why>>
     \/ \E x \in KeyArgs :
          IF parse_uint64(x, U64(1), U64Max)
          THEN pc' = "key_send" /\ opts' = [opts EXCEPT !.op_key = x]
               /\ UNCHANGED <<exitCode, why>>
          ELSE pc' = "exit" /\ why' = "setup" /\ exitCode' = EXIT_FAILURE
               /\ UNCHANGED opts
  /\ UNCHANGED <<step, sockq, sigmask, pending, timer, evs, i, cur, pl, owed, drained,
                 last, out, log, flushed, freed, nArr, nErr,
                 backendVars, pubVars, isoVars>>

\* publish_datagrams sends the datagram of round 0, which reaches the
\* socket of a subscriber run with -s sid or without -s
KY_Send ==
  /\ pc = "key_send"
  /\ \E sid \in {U64Zero, opts.op_key, U64(7)} :
       opts' = [opts EXCEPT !.so_sid = sid]
  /\ LET dg == WireOf(fill_payload(opts, 1, U64(0)))
     IN  /\ sent' = Append(sent, [round |-> 0, ep |-> 1, ret |-> SizeofPayload, dg |-> dg,
                                  noise |-> FALSE])
         /\ sockq' = [sockq EXCEPT ![1] = Append(@, Received(dg, 64))]
  /\ nArr' = nArr + 1
  /\ pub_c' = 1
  /\ cur' = 1
  /\ evs' = <<1>>
  /\ i' = 1
  /\ pc' = "recv"
  /\ UNCHANGED <<step, sigmask, pending, timer, pl, owed, drained, last, out, log,
                 exitCode, why, flushed, freed, nErr, backendVars, isoVars, eps, pub_e,
                 slept>>

NextKey ==
  \/ KY_Generate
  \/ KY_Option
  \/ KY_Send
  \/ HE_Pass

SpecKey == InitKey /\ [][NextKey]_vars

\* -------------------------------------------------- parse_endpoints (parse.c)
\* The arguments are sequences of tokens: an interface name, "=", an
\* address. opts.ep_cnt is argc minus the index of the first argument; the
\* arguments are read as the loop reaches them and kept in script.
MaxArgs == 3

ENDPOINT_MAX == 83886080

\* what getifaddrs returns: name, address family, IFF_LOOPBACK, IFF_UP,
\* IFF_MULTICAST
Ifaces ==
  << [name |-> "lo",   inet |-> TRUE,  loopback |-> TRUE,  up |-> TRUE,  multicast |-> FALSE],
     [name |-> "tun0", inet |-> FALSE, loopback |-> FALSE, up |-> TRUE,  multicast |-> TRUE],
     [name |-> "eth0", inet |-> TRUE,  loopback |-> FALSE, up |-> TRUE,  multicast |-> TRUE],
     [name |-> "eth1", inet |-> TRUE,  loopback |-> FALSE, up |-> FALSE, multicast |-> TRUE] >>

Inputs ==
  { <<>>,
    <<"239.1.1.1">>,
    <<"10.0.0.1">>,
    <<"=", "239.1.1.1">>,
    <<"eth0", "=", "239.1.1.1">>,
    <<"eth0", "=", "junk">>,
    <<"eth0", "=">>,
    <<"eth1", "=", "239.1.1.1">>,
    <<"lo", "=", "239.1.1.1">>,
    <<"wlan9", "=", "239.1.1.1">> }

NoName == "NULL"

\* the interfaces parse_iface's loop does not skip
Suitable(inp, ifs) ==
  { k \in 1..Len(ifs) :
      /\ ifs[k].inet
      /\ ~(inp = NoName /\ ifs[k].loopback)
      /\ (inp = NoName \/ inp = ifs[k].name) }

Lowest(S) == CHOOSE k \in S : \A m \in S : k <= m

parse_iface(inp, ifs) ==
  IF Suitable(inp, ifs) = {} THEN [ok |-> FALSE, ep_iname |-> ""]
  ELSE LET iface == ifs[Lowest(Suitable(inp, ifs))]
       IN  IF ~iface.up \/ ~iface.multicast
           THEN [ok |-> FALSE, ep_iname |-> ""]
           ELSE [ok |-> TRUE, ep_iname |-> iface.name]

\* inet_aton and IN_MULTICAST on the addresses of Inputs
inet_aton(inp) == inp \in {"239.1.1.1", "10.0.0.1"}

IN_MULTICAST(inp) == inp = "239.1.1.1"

parse_maddr(inp) ==
  IF ~inet_aton(inp) THEN [ok |-> FALSE, ep_maddr |-> ""]
  ELSE IF ~IN_MULTICAST(inp) THEN [ok |-> FALSE, ep_maddr |-> inp]
  ELSE [ok |-> TRUE, ep_maddr |-> inp]

\* strchr(inp, '='): the index of the first "=", 0 when there is none
EqAt(inp) ==
  IF \E k \in 1..Len(inp) : inp[k] = "=" 
  THEN Lowest({ k \in 1..Len(inp) : inp[k] = "=" })
  ELSE 0

\* the C string that starts at token k
StrAt(inp, k) == IF k <= Len(inp) THEN inp[k] ELSE ""

parse_endpoint(inp, ifs) ==
  LET bad == [ok |-> FALSE, ep_iname |-> "", ep_maddr |-> ""]
      eq == EqAt(inp)
      iname == IF eq = 0 THEN NoName ELSE inp[1]
      maddr == IF eq = 0 THEN inp[1] ELSE StrAt(inp, eq + 1)
  IN  IF inp = <<>> THEN bad
      ELSE IF eq = 1 THEN bad
      ELSE IF ~parse_iface(iname, ifs).ok THEN bad
      ELSE IF ~parse_maddr(maddr).ok THEN bad
      ELSE [ok |-> TRUE, ep_iname |-> parse_iface(iname, ifs).ep_iname,
            ep_maddr |-> parse_maddr(maddr).ep_maddr]

\* the list with every endpoint linked before its argument is parsed
AfterParse_LinkFirst(ok, new, list) == <<new>> \o list

\* parse_endpoints's loop body after parse_endpoint returned: free(new) and
\* the list as it was, or new linked in front of the list
AfterParse(ok, new, list) == IF ok THEN <<new>> \o list ELSE list

\* the two checks of ep_cnt before anything is allocated
CountRejected(ep_cnt) == ep_cnt < 1 \/ ep_cnt > ENDPOINT_MAX

EndpointOpts == [ep_cnt : (0..MaxArgs) \cup {ENDPOINT_MAX, ENDPOINT_MAX + 1}]

InitEndpoints ==
  /\ opts \in EndpointOpts
  /\ pc = "pe_count"
  /\ step = 0
  /\ sockq = [e \in {1} |-> <<>>]
  /\ sigmask = {}
  /\ pending = {}
  /\ timer = "off"
  /\ evs = <<>>
  /\ i = 0
  /\ cur = 0
  /\ pl = Uninit
  /\ owed = 0
  /\ drained = 0
  /\ last = NoLast
  /\ out = <<>>
  /\ log = <<>>
  /\ exitCode = -1
  /\ why = "none"
  /\ flushed = FALSE
  /\ freed = FALSE
  /\ nArr = 0
  /\ nErr = 0
  /\ sint = FALSE
  /\ shup = FALSE
  /\ eps = <<>>
  /\ pub_c = 0
  /\ pub_e = 1
  /\ sent = <<>>
  /\ slept = <<>>
  /\ calls = <<>>
  /\ script = <<>>
  /\ runs = <<>>

\* parse_endpoints up to its loop: the two checks of ep_cnt, getifaddrs
PEs_Count ==
  /\ pc = "pe_count"
  /\ IF CountRejected(opts.ep_cnt)
     THEN pc' = "pe_false" /\ UNCHANGED calls
     ELSE \E ok \in BOOLEAN :
            /\ calls' = Append(calls, [ep |-> 0, call |-> "getifaddrs", val |-> 0, ok |-> ok])
            /\ pc' = IF ok THEN "pe_loop" ELSE "pe_false"
  /\ UNCHANGED <<opts, step, sockq, sigmask, pending, timer, evs, i, cur, pl, owed, drained,
                 last, out, log, exitCode, why, flushed, freed, nArr, nErr,
                 backendVars, pubVars, script, runs>>

\* one turn of the loop, or its end with freeifaddrs and return result
PEs_Iter ==
  /\ pc = "pe_loop"
  /\ IF i >= opts.ep_cnt
     THEN /\ pc' = "pe_true"
          /\ calls' = Append(calls, [ep |-> 0, call |-> "freeifaddrs", val |-> 0, ok |-> TRUE])
          /\ UNCHANGED <<i, eps, script>>
     ELSE /\ Len(script) < MaxArgs
          /\ \/ /\ calls' = Append(calls, [ep |-> i + 1, call |-> "malloc", val |-> 0, ok |-> FALSE])
                /\ pc' = "pe_false"
                /\ UNCHANGED <<i, eps, script>>
             \/ \E inp \in Inputs :
                  LET r == parse_endpoint(inp, Ifaces)
                      new == [arg |-> i + 1, ep_iname |-> r.ep_iname, ep_maddr |-> r.ep_maddr]
                  IN  /\ script' = Append(script, inp)
                      /\ eps' = AfterParse(r.ok, new, eps)
                      /\ calls' = calls \o
                           << [ep |-> i + 1, call |-> "malloc", val |-> 0, ok |-> TRUE],
                              [ep |-> i + 1, call |-> "parse_endpoint", val |-> 0, ok |-> r.ok] >>
                           \o (IF r.ok THEN <<>>
                               ELSE << [ep |-> i + 1, call |-> "free", val |-> 0, ok |-> TRUE],
                                       [ep |-> 0, call |-> "freeifaddrs", val |-> 0, ok |-> TRUE] >>)
                      /\ i' = IF r.ok THEN i + 1 ELSE i
                      /\ pc' = IF r.ok THEN "pe_loop" ELSE "pe_false"
  /\ UNCHANGED <<opts, step, sockq, sigmask, pending, timer, evs, cur, pl, owed, drained,
                 last, out, log, exitCode, why, flushed, freed, nArr, nErr,
                 backendVars, pub_c, pub_e, sent, slept, runs>>

NextEndpoints ==
  \/ PEs_Count
  \/ PEs_Iter

SpecEndpoints == InitEndpoints /\ [][NextEndpoints]_vars

\* --------------------------------------------------- parse_duration (parse.c)
\* The input is a sequence of characters. Numbers wider than TLC's integers
\* are tuples of bytes, most significant first.
MaxDigits == 20

\* a, as a number w bytes wide
Pad(a, w) == [k \in 1..w |-> IF k <= w - Len(a) THEN 0 ELSE a[k - (w - Len(a))]]

\* the w least significant bytes of a, and the bytes above them
Low(a, w) == SubSeq(a, Len(a) - w + 1, Len(a))

High(a, w) == SubSeq(a, 1, Len(a) - w)

IsZero(a) == \A k \in 1..Len(a) : a[k] = 0

RECURSIVE MulCarry(_, _, _, _)
MulCarry(a, m, k, carry) ==
  IF k = 0 THEN <<carry>>
  ELSE LET p == a[k] * m + carry
       IN  Append(MulCarry(a, m, k - 1, p \div 256), p % 256)

\* exact product of a and a number m below 256: one byte wider than a
MulByte(a, m) == MulCarry(a, m, Len(a), 0)

\* exact product of a and the k most significant bytes of b, 16 bytes wide
RECURSIVE MulAcc(_, _, _)
MulAcc(a, b, k) ==
  IF k = 0 THEN Pad(<<>>, 16)
  ELSE LET prev == MulAcc(a, b, k - 1)
           part == Pad(MulByte(a, b[k]), 16)
       IN  IF IsZero(prev) THEN part
           ELSE Low(UAddExact(Tail(prev) \o <<0>>, part), 16)

\* exact product of two 64-bit numbers, 128 bits wide
UMulFull(a, b) == MulAcc(a, b, Len(b))

\* a * b modulo 2^64, as C computes it on uint64_t
UMul(a, b) == Low(UMulFull(a, b), 8)

\* x / m == q in C, for m above 0: q * m <= x < q * m + m
DivIs(x, m, q) ==
  /\ ~ULt(Pad(x, 16), UMulFull(q, m))
  /\ ULt(USub(Pad(x, 16), UMulFull(q, m)), Pad(m, 16))

\* parse_duration's test after x = num * mult
Overflows(num, mult, x) == ~DivIs(x, mult, num)

DigitVal ==
  [c \in {"0", "1", "2", "3", "4", "5", "6", "7", "8", "9"} |->
     CASE c = "0" -> 0 [] c = "1" -> 1 [] c = "2" -> 2 [] c = "3" -> 3 [] c = "4" -> 4
       [] c = "5" -> 5 [] c = "6" -> 6 [] c = "7" -> 7 [] c = "8" -> 8 [] c = "9" -> 9]

IsDigit(c) == c \in DOMAIN DigitVal

IsSpace(c) == c = " "

\* the first index from k on whose character is no white space
RECURSIVE SkipSpace(_, _)
SkipSpace(inp, k) ==
  IF k <= Len(inp) /\ IsSpace(inp[k]) THEN SkipSpace(inp, k + 1) ELSE k

\* the first index from k on whose character is no digit
RECURSIVE DigitsEnd(_, _)
DigitsEnd(inp, k) ==
  IF k <= Len(inp) /\ IsDigit(inp[k]) THEN DigitsEnd(inp, k + 1) ELSE k

\* the first index from k on, and at most lim, whose character is white space
RECURSIVE WordEnd(_, _, _)
WordEnd(inp, k, lim) ==
  IF k <= Len(inp) /\ k < lim /\ ~IsSpace(inp[k]) THEN WordEnd(inp, k + 1, lim) ELSE k

\* the digits inp[k..to - 1] read into 64 bits: the value modulo 2^64 and
\* whether the number was too large for them
RECURSIVE Decimal(_, _, _, _)
Decimal(inp, k, to, acc) ==
  IF k >= to THEN acc
  ELSE LET e == UAddExact(MulByte(acc.num, 10), Pad(<<DigitVal[inp[k]]>>, 9))
       IN  IF acc.over \/ ~IsZero(High(e, 8))
           THEN Decimal(inp, k + 1, to, [num |-> Low(e, 8), over |-> TRUE])
           ELSE Decimal(inp, k + 1, to, [num |-> Low(e, 8), over |-> FALSE])

EOF_ == -1

\* sscanf(inp, "%" SCNu64 "%2s%n", &num, unit, &adv): the count it returns
\* and what it stored; adv is stored only with the count 2
sscanf(inp) ==
  LET none == [n |-> EOF_, num |-> U64Zero, over |-> FALSE, unit |-> <<>>, adv |-> 0]
      k0 == SkipSpace(inp, 1)
      k1 == IF k0 <= Len(inp) /\ inp[k0] \in {"+", "-"} THEN k0 + 1 ELSE k0
      k2 == DigitsEnd(inp, k1)
      d  == Decimal(inp, k1, k2, [num |-> U64Zero, over |-> FALSE])
      num == IF k1 > k0 /\ inp[k0] = "-" THEN USub(U64Zero, d.num) ELSE d.num
      k3 == SkipSpace(inp, k2)
      k4 == WordEnd(inp, k3, k3 + 2)
  IN  IF k0 > Len(inp) THEN none
      ELSE IF k2 = k1 THEN [none EXCEPT !.n = 0]
      ELSE IF k3 > Len(inp) THEN [none EXCEPT !.n = 1, !.num = num, !.over = d.over]
      ELSE [n |-> 2, num |-> num, over |-> d.over, unit |-> SubSeq(inp, k3, k4 - 1),
            adv |-> k4 - 1]

\* 1000 * a, for a below 2^64 / 1000
Thousand(a) == Low(MulByte(MulByte(a, 10), 100), 8)

Mult_ns == U64(1)

Mult_s == Thousand(Thousand(Thousand(Mult_ns)))

Mult_m == Low(MulByte(Mult_s, 60), 8)

Mult_h == Low(MulByte(Mult_m, 60), 8)

\* parse_unit: the multiplier it stores, 0 when it stores none over the
\* caller's mult = 0
parse_unit(unit) ==
  CASE unit = <<"n", "s">> -> Mult_ns
    [] unit = <<"u", "s">> -> Thousand(Mult_ns)
    [] unit = <<"m", "s">> -> Thousand(Thousand(Mult_ns))
    [] unit = <<"s">> -> Mult_s
    [] unit = <<"m">> -> Mult_m
    [] unit = <<"h">> -> Mult_h
    [] unit = <<"d">> -> Low(MulByte(Mult_h, 24), 8)
    [] OTHER -> U64Zero

\* What the C library may store for a number too large for 64 bits, where
\* the behaviour of sscanf is undefined: the largest value or the low bits.
Stored(s, lib) == IF s.over /\ lib = "saturate" THEN U64Max ELSE s.num

\* parse_duration(dur, inp): the status, *dur after the call and the
\* message; lib and junk are the outcomes of sscanf's undefined conversion
\* and of reading adv when sscanf did not store it
parse_duration(dur, inp, lib, junk) ==
  LET s == sscanf(inp)
      adv == IF s.n = 2 THEN s.adv ELSE junk
      mult == parse_unit(s.unit)
      num == Stored(s, lib)
      x == UMul(num, mult)
      fail(msg) == [ok |-> FALSE, dur |-> dur, msg |-> msg]
  IN  IF s.n = 0 THEN fail("Unable to parse the scalar value")
      ELSE IF s.n = 1 THEN fail("No unit specified")
      ELSE IF adv # Len(inp) THEN fail("excess characters")
      ELSE IF mult = U64Zero THEN fail("Unknown unit")
      ELSE IF Overflows(num, mult, x) THEN fail("Duration would overflow")
      ELSE [ok |-> TRUE, dur |-> x, msg |-> ""]

\* scalars around the limits of the units: 2^64 - 1, 2^64, twenty nines,
\* 10 * 2^64, the largest numbers of seconds and of days and the numbers
\* after them
ScalarTexts ==
  { <<>>, <<"0">>, <<"7">>, <<"4", "2">>,
    <<"1","8","4","4","6","7","4","4","0","7","3","7","0","9","5","5","1","6","1","5">>,
    <<"1","8","4","4","6","7","4","4","0","7","3","7","0","9","5","5","1","6","1","6">>,
    <<"9","9","9","9","9","9","9","9","9","9","9","9","9","9","9","9","9","9","9","9">>,
    <<"1","8","4","4","6","7","4","4","0","7","3","7","0","9","5","5","1","6","1","6","0">>,
    <<"1","8","4","4","6","7","4","4","0","7","3">>,
    <<"1","8","4","4","6","7","4","4","0","7","4">>,
    <<"2","1","3","5","0","3">>,
    <<"2","1","3","5","0","4">> }

Scalars == { t \in ScalarTexts : Len(t) <= MaxDigits }

Prefixes == { <<>>, <<" ">>, <<"+">>, <<"-">> }

Suffixes ==
  { <<>>, <<"n", "s">>, <<"u", "s">>, <<"m", "s">>, <<"s">>, <<"m">>, <<"h">>, <<"d">>,
    <<" ", "s">>, <<"s", " ">>, <<"x">>, <<"s", "x">>, <<"m", "s", "x">> }

DurationInputs == { p \o t \o u : p \in Prefixes \ {<<"+">>, <<"-">>}, t \in Scalars, u \in Suffixes }
                    \cup { p \o t \o u : p \in {<<"+">>, <<"-">>}, t \in Scalars \ {<<>>}, u \in Suffixes }

\* so_tout before -t is parsed: the default and a value an earlier -t left
DurBefore == { U64Zero, U64(7) }

InitDuration ==
  /\ opts \in [so_tout : DurBefore]
  /\ pc = "pd_call"
  /\ step = 0
  /\ sockq = [e \in {1} |-> <<>>]
  /\ sigmask = {}
  /\ pending = {}
  /\ timer = "off"
  /\ evs = <<>>
  /\ i = 0
  /\ cur = 0
  /\ pl = Uninit
  /\ owed = 0
  /\ drained = 0
  /\ last = NoLast
  /\ out = <<>>
  /\ log = <<>>
  /\ exitCode = -1
  /\ why = "none"
  /\ flushed = FALSE
  /\ freed = FALSE
  /\ nArr = 0
  /\ nErr = 0
  /\ sint = FALSE
  /\ shup = FALSE
  /\ eps = <<>>
  /\ pub_c = 0
  /\ pub_e = 1
  /\ sent = <<>>
  /\ slept = <<>>
  /\ calls = <<>>
  /\ script \in DurationInputs
  /\ runs = <<>>

\* parse_args: case 't', parse_duration(&opts->so_tout, optarg)
PD_Call ==
  /\ pc = "pd_call"
  /\ \E lib \in {"saturate", "wrap"}, junk \in {-1, 0, Len(script)} :
       LET r == parse_duration(opts.so_tout, script, lib, junk)
       IN  /\ opts' = [opts EXCEPT !.so_tout = r.dur]
           /\ pc' = IF r.ok THEN "pd_true" ELSE "pd_false"
           /\ why' = r.msg
           /\ runs' = <<[before |-> opts.so_tout, lib |-> lib]>>
  /\ UNCHANGED <<step, sockq, sigmask, pending, timer, evs, i, cur, pl, owed, drained,
                 last, out, log, exitCode, flushed, freed, nArr, nErr,
                 backendVars, pubVars, calls, script>>

NextDuration == PD_Call

SpecDuration == InitDuration /\ [][NextDuration]_vars

\* ================================================================ claims
DataLines == SelectSeq(out, LAMBDA x : x.line # "header")

\* C1: a datagram whose received byte count differs from the payload size
\* is never rendered, whatever its content, and the size check comes first:
\* of a wrongly sized datagram only the size is examined, and for every
\* datagram read the size is the first thing examined.
C1_SizeCheckedFirst ==
  last.kind = "dgram" =>
    /\ Head(last.checked) = "size"
    /\ last.nbytes # SizeofPayload =>
         /\ last.checked = <<"size">>
         /\ last.msgs = <<"Wrong payload size">>
         /\ ~last.valid /\ last.stage = "none" /\ last.printed = <<>>

\* a datagram one byte short, with valid magic and version, went through a
\* pass of the read loop
C1_Witness ==
  /\ last.kind = "dgram"
  /\ last.nbytes = SizeofPayload - 1
  /\ last.dg.magic = MBEAT_PAYLOAD_MAGIC
  /\ last.dg.fver = MBEAT_PAYLOAD_VERSION
  /\ log = <<"Wrong payload size">>

\* C2: a correctly sized datagram whose magic on the wire is not
\* MBEAT_PAYLOAD_MAGIC is rejected and never reaches print_payload, even
\* with the supported version.
C2_BadMagicRejected ==
  (last.kind = "dgram" /\ last.dg.len = SizeofPayload
     /\ last.dg.magic # MBEAT_PAYLOAD_MAGIC) =>
    /\ last.msgs = <<"Payload magic number invalid">>
    /\ ~last.valid /\ last.stage = "none" /\ last.printed = <<>>

C2_Witness ==
  /\ last.kind = "dgram"
  /\ last.dg.len = SizeofPayload
  /\ last.dg.magic = BadMagic
  /\ last.dg.fver = MBEAT_PAYLOAD_VERSION
  /\ opts.so_sid = U64Zero
  /\ log = <<"Payload magic number invalid">>

\* C3: a correctly sized datagram with the right magic whose format version
\* is not MBEAT_PAYLOAD_VERSION is rejected and never reaches print_payload.
C3_BadVersionRejected ==
  (last.kind = "dgram" /\ last.dg.len = SizeofPayload
     /\ last.dg.magic = MBEAT_PAYLOAD_MAGIC /\ last.dg.fver # MBEAT_PAYLOAD_VERSION) =>
    /\ last.msgs = <<"Unsupported payload version">>
    /\ ~last.valid /\ last.stage = "none" /\ last.printed = <<>>

C3_Witness ==
  /\ last.kind = "dgram"
  /\ last.dg.len = SizeofPayload
  /\ last.dg.magic = MBEAT_PAYLOAD_MAGIC
  /\ last.dg.fver = 3
  /\ opts.so_sid = U64Zero
  /\ log = <<"Unsupported payload version">>

\* C4: under either error policy a datagram that fails the size, magic or
\* version check does not make handle_event return: the read loop goes on
\* to its next pass, main has not left and no exit code is set.
C4_RejectNeverFatal ==
  (last.kind = "dgram" /\ ~last.valid) =>
    (last.ret = "continue" /\ pc = "recv" /\ exitCode = -1 /\ why = "none")

\* with the exit-on-error policy set, a rejected datagram was followed by
\* an accepted one in the same handle_event call
C4_Witness ==
  /\ opts.so_err = 1
  /\ pc = "recv"
  /\ last.kind = "dgram" /\ last.valid /\ last.printed # <<>>
  /\ drained = 2
  /\ Len(log) = 1

\* C5: with the exit-on-error policy, a recvmsg failure other than EAGAIN
\* makes handle_event return failure, the receive loop stops and the
\* process exits with EXIT_FAILURE.
C5_RecvErrorFatal ==
  (opts.so_err = 1 /\ last.kind = "error") =>
    (last.ret = "false" /\ pc = "exit" /\ why = "handler" /\ exitCode = EXIT_FAILURE)

C5_Witness ==
  /\ opts.so_err = 1
  /\ last.kind = "error"
  /\ pc = "exit"
  /\ exitCode = EXIT_FAILURE

\* C6: under the warn-and-continue policy a recvmsg failure other than
\* EAGAIN is reported as a transport error only: the pass that logs "Unable
\* to receive datagram" does not also log "Wrong payload size".
C6_TransportNotProtocol ==
  (opts.so_err = 0 /\ last.kind = "error") =>
    last.msgs = <<"Unable to receive datagram">>

\* C7: handle_event returns success only from a recvmsg that reported
\* EAGAIN, and by then every datagram that was queued on the socket when
\* the call started has been read.
C7_DrainedBeforeReturn ==
  last.ret = "true" => (last.kind = "eagain" /\ owed = 0)

\* handle_event returned success after reading two datagrams in one call
C7_Witness ==
  /\ last.ret = "true"
  /\ last.kind = "eagain"
  /\ drained = 2
  /\ pc \in {"wait", "dispatch"}

\* C8: the key filter of print_payload drops a valid payload exactly when a
\* filter key K # 0 is configured and the payload's key differs from K; so
\* with K # 0 only payloads of key K are rendered, with K = 0 no payload is
\* dropped by the key filter, and a payload not below the sequence floor is
\* rendered if and only if K = 0 or its key equals K.  (last.dec is the
\* decoded payload handed to print_payload.)
C8_KeyFilter ==
  last.valid =>
    LET K == opts.so_sid
        key == last.dec.pl_sid
        atFloor == ~ULt(last.dec.pl_snum, opts.so_off)
    IN  /\ (last.stage = "key") <=> (K # U64Zero /\ key # K)
        /\ last.stage = "key" => last.printed = <<>>
        /\ (K # U64Zero /\ last.printed # <<>>) => (key = K /\ last.printed[1].sid = K)
        /\ atFloor => ((last.printed # <<>>) <=> (K = U64Zero \/ key = K))

\* a payload whose key differs from the filter key only in its top byte
\* was dropped by the key filter
C8_Witness ==
  /\ last.valid
  /\ opts.so_sid = KeyHigh
  /\ last.dec.pl_sid = U64(42)
  /\ last.stage = "key"
  /\ out = IF opts.so_raw = 0 THEN <<[line |-> "header"]>> ELSE <<>>

\* C9: a valid payload that passed the key filter and has sequence number S
\* below the floor is dropped without output or diagnostic; with S at or
\* above the floor exactly one record is written and its sequence number n
\* satisfies n + floor = S over the naturals (no wrap-around).
C9_SequenceFloor ==
  (last.valid /\ last.stage # "key") =>
    LET S == last.dec.pl_snum
        F == opts.so_off
    IN  /\ ULt(S, F) => (last.stage = "floor" /\ last.printed = <<>> /\ last.msgs = <<>>)
        /\ ~ULt(S, F) =>
             /\ last.stage = "output"
             /\ Len(last.printed) = 1
             /\ UAddExact(last.printed[1].snum, F) = <<0>> \o S
             /\ out[Len(out)] = last.printed[1]

\* sequence number 2^64 - 1 with floor 2^32 was rendered
C9_Witness ==
  /\ last.valid
  /\ opts.so_off = Pow32
  /\ last.dec.pl_snum = U64Max
  /\ last.stage = "output"
  /\ last.printed[1].snum = <<255, 255, 255, 254, 255, 255, 255, 255>>

C11_NoDispatchAfterSignal ==
  [][/\ (pc = "wait" /\ pc' = "dispatch" /\ pending \cap sigmask # {}) =>
          (\E k \in 1..Len(evs') : evs'[k] = SIGFD)
     /\ (pc = "dispatch" /\ evs[i] = SIGFD) =>
          (pc' = "exit" /\ why' = "signal"
             /\ UNCHANGED <<evs, i, cur, sockq, drained, out, log>>)]_vars

\* the loop returned on the signal event while the next event of the same
\* batch was a socket with a datagram still queued
C11_Witness ==
  /\ pc = "exit"
  /\ why = "signal"
  /\ i < Len(evs)
  /\ evs[i] = SIGFD
  /\ sockq[evs[i + 1]] # <<>>

\* C12: while handle_event runs for a socket event, the wake-up batch it
\* was taken from holds no signal event (a wake-up is either ready sockets
\* or a termination notice, never both).
C12_NoSocketInSignalBatch ==
  pc = "recv" => \A k \in 1..Len(evs) : evs[k] # SIGFD

C14_NoLostSignal ==
  pc = "wait" => (~sint /\ ~shup)

\* C15: no lost wake-ups: unless the process ends first (termination notice
\* or fatal error), the receive queues of all registered endpoint sockets
\* are empty again and again, that is, every datagram that was queued on
\* any of them has been read by handle_event; also when the ready sockets
\* do not fit in one batch and while another endpoint receives a burst.
C15_NoLostWakeup ==
  []<>((\A e \in LiveEps : sockq[e] = <<>>) \/ pc \in {"exit", "killed"})

\* epoll_wait has just returned a full batch while every endpoint socket
\* holds a datagram: more sockets are ready than the batch has events
C15_Witness ==
  /\ pc = "dispatch"
  /\ i = 1
  /\ Len(evs) = MaxEvents
  /\ \A e \in LiveEps : sockq[e] # <<>>
  /\ Cardinality(Ready) > MaxEvents

\* C16: an armed timeout timer always leads to the end of the receive loop,
\* through the signal event and then with EXIT_SUCCESS (or else through a
\* failed queue wait); with a zero timeout no timer is ever armed and
\* SIGALRM is never raised.
C16_TimeoutTerminates ==
  /\ (timer = "armed") ~>
       (pc = "exit" /\ why \in {"signal", "queue"}
          /\ (why = "signal" => exitCode = EXIT_SUCCESS))
  /\ [](opts.so_tout = 0 => (timer = "off" /\ "SIGALRM" \notin pending))

\* the run ended with success on the timer's SIGALRM alone: no datagram
\* arrived and no interrupt was raised
C16_Witness ==
  /\ pc = "exit"
  /\ why = "signal"
  /\ exitCode = EXIT_SUCCESS
  /\ timer = "fired"
  /\ nArr = 0
  /\ pending \subseteq {"SIGALRM"}

\* the sends of round r so far, and whether a send failed
SentIn(r) == SelectSeq(sent, LAMBDA x : x.round = r)

FailedSends == SelectSeq(sent, LAMBDA x : x.ret = RecvFailed)

\* C17: every datagram of round r carries the sequence number F + r (as a
\* natural number, F the offset), so the number starts at F and grows by
\* one per round; and a run of N rounds that ends without an aborting
\* failure has sent exactly one datagram per round to every endpoint.
C17_SequenceNumbers ==
  /\ \A k \in 1..Len(sent) :
       UAddExact(U64(sent[k].round), opts.op_off) = <<0>> \o sent[k].dg.snum
  /\ (pc = "exit" /\ why = "done") =>
       \A r \in 0..(MaxRounds - 1) :
         IF ULt(U64(r), opts.op_cnt)
         THEN /\ Len(SentIn(r)) = opts.ep_cnt
              /\ \A a \in 1..opts.ep_cnt : \E k \in 1..opts.ep_cnt : SentIn(r)[k].ep = a
         ELSE SentIn(r) = <<>>

\* C18: every payload handed to sendmsg carries on the wire, as a 64-bit
\* big-endian number, the configured round count op_cnt in its
\* sequence-length field, whatever the round, the endpoint and the offset.
C18_SequenceLength ==
  \A k \in 1..Len(sent) : sent[k].dg.slen = opts.op_cnt

\* with a round count above 2^32 and the offset 2^32, two rounds to two
\* endpoints have been sent
C18_Witness ==
  /\ opts.op_cnt = BigCount
  /\ opts.op_off = Pow32
  /\ Len(sent) = 4
  /\ sent[1].ep # sent[2].ep
  /\ sent[4].round = 1
  /\ sent[4].dg.slen = BigCount

\* C19: in every round the k-th send goes to the k-th endpoint argument of
\* the command line.
C19_RegistrationOrder ==
  \A r \in 0..(MaxRounds - 1) :
    \A k \in 1..Len(SentIn(r)) : SentIn(r)[k].ep = k

\* C20: every failed sendmsg is logged, and with the exit-on-error policy
\* it is the last send of the run: publish_datagrams returns failure and
\* main exits with EXIT_FAILURE.
C20_SendFailureDetected ==
  /\ Len(log) = Len(FailedSends)
  /\ (opts.op_err = 1 /\ FailedSends # <<>>) =>
       (pc = "exit" /\ why = "send" /\ exitCode = EXIT_FAILURE
          /\ sent[Len(sent)].ret = RecvFailed)

\* C21: the publisher sleeps after a round only when the interval is not
\* zero and the round is not the last: every recorded sleep follows a round
\* before the last with a positive interval, no round is slept after twice,
\* and a complete run of N rounds has slept N - 1 times (after the rounds
\* 0 .. N - 2, in this order) with a positive interval and never with a
\* zero interval.
C21_SleepBetweenRounds ==
  /\ \A k \in 1..Len(slept) :
       /\ ULt(U64Zero, opts.op_slp)
       /\ ULt(U64(slept[k] + 1), opts.op_cnt)
       /\ slept[k] < pub_c
  /\ (pc = "exit" /\ why = "done") =>
       /\ U64(pub_c) = opts.op_cnt
       /\ IF ULt(U64Zero, opts.op_slp)
          THEN slept = [k \in 1..(pub_c - 1) |-> k - 1]
          ELSE slept = <<>>

\* a run of two rounds to two endpoints with a positive interval is
\* complete and slept once, after round 0
C21_Witness ==
  /\ pc = "exit"
  /\ why = "done"
  /\ opts.op_cnt = U64(2)
  /\ opts.op_slp = U64(1)
  /\ Len(sent) = 4
  /\ slept = <<0>>

\* C25: a valid datagram is handed to print_payload whether or not a TTL
\* control message came with it, and one the filters let through is
\* rendered with the TTL marked unavailable when none was retrieved: the
\* CSV line shows "N/A" and otherwise the number, the raw record has the
\* availability flag 1 exactly when a TTL in 0..255 was retrieved, and then
\* its TTL byte is that TTL.
C25_TtlUnavailable ==
  (last.kind = "dgram" /\ last.dg.len = SizeofPayload
     /\ last.dg.magic = MBEAT_PAYLOAD_MAGIC /\ last.dg.fver = MBEAT_PAYLOAD_VERSION) =>
    LET got == last.dg.cttl \in 0..255
    IN  /\ last.valid /\ last.msgs = <<>> /\ last.ret = "continue"
        /\ (last.stage = "output") <=>
             (~KeyFilterDrops(opts, last.dec) /\ ~FloorDrops(opts, last.dec))
        /\ last.stage = "output" =>
             /\ Len(last.printed) = 1
             /\ out[Len(out)] = last.printed[1]
             /\ opts.so_raw = 0 =>
                  /\ last.printed[1].ttl_str.na = ~got
                  /\ got => last.printed[1].ttl_str.num = last.dg.cttl
             /\ opts.so_raw = 1 =>
                  /\ (last.printed[1].ro_ttla = 1) <=> got
                  /\ last.printed[1].ro_ttla \in {0, 1}
                  /\ got => last.printed[1].ro_ttl = last.dg.cttl

\* a valid datagram without a TTL control message was written as a raw
\* record with the availability flag 0
C25_Witness ==
  /\ last.kind = "dgram"
  /\ last.valid
  /\ last.dg.cttl = -1
  /\ opts.so_raw = 1
  /\ last.stage = "output"
  /\ out = last.printed
  /\ last.printed[1].ro_ttla = 0

\* the datagram the latest pass of the read loop took from the socket, as
\* the publisher sent it: datagrams are read in the order they were sent
LastSent == sent[Len(sent) - Len(sockq[1])]

\* C22: every payload of the publisher that the subscriber decodes (an
\* unaltered datagram, which passes validation) comes out of
\* convert_payload with the values fill_payload was given, field for
\* field: magic, version, TTL, port, group, key, sequence number (the
\* 32-bit argument of fill_payload), sequence length, both departure times
\* and the interface name.
C22_RoundTrip ==
  (last.kind = "dgram" /\ last.valid) =>
    /\ last.dec.pl_magic = MBEAT_PAYLOAD_MAGIC
    /\ last.dec.pl_fver = MBEAT_PAYLOAD_VERSION
    /\ last.dec.pl_ttl = opts.op_ttl
    /\ last.dec.pl_mport = opts.op_port
    /\ last.dec.pl_maddr = EpMaddr(LastSent.ep)
    /\ last.dec.pl_sid = opts.op_key
    /\ last.dec.pl_snum = Widen64(Trunc32(UAdd(U64(LastSent.round), opts.op_off)))
    /\ last.dec.pl_slen = opts.op_cnt
    /\ last.dec.pl_iname = EpIname(LastSent.ep)
    /\ last.dec.pl_sec = opts.clk_r
    /\ last.dec.pl_msec = opts.clk_m

\* the subscriber has read everything the publisher will ever send
Quiet == U64(pub_c) = opts.op_cnt /\ sockq[1] = <<>> /\ pc = "wait"

\* the floor of the subscriber as a number
FloorOf(o) == CHOOSE f \in 0..MaxRounds : o.so_off = U64(f)

\* C28: one endpoint, a channel that loses, reorders and alters nothing, a
\* publisher of N rounds with offset 0 and key K, a subscriber without key
\* filter and with floor f: the records written are at any time the first
\* ones of the sequence numbered 0, 1, ... with sequence length N and
\* session K, and once everything sent was read there are exactly N - f
\* of them (none when f exceeds N).
C28_EndToEnd ==
  Noisy = <<>> =>
    /\ \A k \in 1..Len(DataLines) :
         /\ DataLines[k].snum = U64(k - 1)
         /\ DataLines[k].slen = opts.op_cnt
         /\ DataLines[k].sid = opts.op_key
         /\ DataLines[k].ep = 1
    /\ Len(DataLines) <= pub_c
    /\ Quiet => Len(DataLines) = IF FloorOf(opts) <= pub_c THEN pub_c - FloorOf(opts) ELSE 0

C28_Witness ==
  /\ Quiet /\ Noisy = <<>>
  /\ opts.op_cnt = U64(3) /\ opts.so_off = U64(1)
  /\ Len(DataLines) = 2
  /\ DataLines[2].snum = U64(1)
  /\ DataLines[2].slen = U64(3)

\* the datagrams read so far, as they were sent
ReadSoFar == SubSeq(sent, 1, Len(sent) - Len(sockq[1]))

\* C29: the records written are those of the unaltered datagrams read
\* from the socket that reach the floor, in the order of arrival, and each
\* datagram with an altered magic adds one "Payload magic number invalid"
\* to the log and nothing else: with an altered datagram between two valid
\* ones, the log holds exactly one message and both valid ones are written,
\* the earlier one first.
C29_RejectedBetween ==
  LET good == SelectSeq(ReadSoFar, LAMBDA x : ~x.noise /\ x.round >= FloorOf(opts))
      bad == SelectSeq(ReadSoFar, LAMBDA x : x.noise)
  IN  /\ Len(DataLines) = Len(good)
      /\ \A k \in 1..Len(good) : DataLines[k].snum = U64(good[k].round - FloorOf(opts))
      /\ log = [k \in 1..Len(bad) |-> "Payload magic number invalid"]
      /\ pc # "exit"

C29_Witness ==
  /\ Quiet
  /\ Len(sent) = 3 /\ ~sent[1].noise /\ sent[2].noise /\ ~sent[3].noise
  /\ opts.so_off = U64(0)
  /\ log = <<"Payload magic number invalid">>
  /\ Len(DataLines) = 2
  /\ DataLines[1].snum = U64(0) /\ DataLines[2].snum = U64(2)

\* C23: a setup call that fails ends the process at once with
\* EXIT_FAILURE and before any loop: in msub none of the nine calls before
\* receive_datagrams (event queue, sockets, socket and signal
\* registration, timer among them) is followed by the header, a wait or a
\* read; in mpub no failed call before publish_datagrams is followed by a
\* round or a send.  A program inside its loop has passed every setup
\* call.
C23_SetupFatal ==
  /\ why = "setup" =>
       /\ pc = "exit"
       /\ exitCode = EXIT_FAILURE
       /\ out = <<>> /\ evs = <<>> /\ drained = 0 /\ last = NoLast /\ log = <<>>
       /\ sent = <<>> /\ pub_c = 0
  /\ (IsSub(opts) /\ pc \notin {"setup", "exit", "killed"}) =>
       /\ why = "none"
       /\ step = Len(SetupSteps)
       /\ sigmask = SignalMask(opts)
       /\ opts.so_tout # 0 => timer # "off"
  /\ (~IsSub(opts) /\ pc \in {"round", "send"}) =>
       /\ why = "none"
       /\ step = Len(PubSetupSteps)
       /\ Len(eps) = opts.ep_cnt /\ opts.ep_cnt >= 1

C23_Witness ==
  /\ IsSub(opts)
  /\ pc = "exit" /\ why = "setup"
  /\ SetupSteps[step] = "create_socket_events"
  /\ exitCode = EXIT_FAILURE
  /\ out = <<>>

\* C27: a program that ends after its loop was entered, whether the loop
\* returned true or false, has released its endpoints before main
\* returned, and msub has flushed the output stream too.
C27_ReleasedOnEveryExit ==
  (pc = "exit" /\ why # "setup") => (freed /\ (IsSub(opts) => flushed))

\* the calls that set a socket buffer size
BufCalls == SelectSeq(calls, LAMBDA x : x.call \in {"SO_RCVBUF", "SO_SNDBUF"})

\* C24: in create_sockets of msub a failed request for the TTL of
\* received datagrams does not fail the setup: create_sockets never
\* returns false on account of the IP_RECVTTL call.
C24_RecvTtlOptional ==
  (opts.prog = "sub" /\ pc = "cs_false") => calls[Len(calls)].call # "IP_RECVTTL"

\* C26: a buffer-size call is made only for a requested size other than
\* zero, and the value it hands to the system is the requested size, never
\* zero, whatever 64-bit size was requested.
C26_BufferSize ==
  /\ opts.buf = U64Zero => BufCalls = <<>>
  /\ \A k \in 1..Len(BufCalls) :
       /\ BufCalls[k].val # 0
       /\ SameSize(opts.buf, BufCalls[k].val)

\* C30: fed the same wake-ups, receive_events of the three backends calls
\* handle_event on the same endpoints in the same order and ends in the
\* same way, and none of them returns except at a termination signal, a
\* failed wait or a failed handle_event.
C30_OneContract ==
  /\ \A a, b \in 1..Len(runs) :
       runs[a].handled = runs[b].handled /\ runs[a].ret = runs[b].ret
  /\ \A a \in 1..Len(runs) :
       runs[a].ret \in {"true", "false"} => runs[a].on \in {"signal", "wait_failed", "handler"}

\* the signals a finished registration has handed to the event queue, or
\* given the handler of the pselect backend
Registered ==
  UNION {calls[k].val : k \in {j \in 1..Len(calls) :
           calls[j].ok /\ calls[j].call \in {"signalfd", "kevent", "sigaction"}}}

\* C31: in every build the signals of a completed registration include
\* SIGINT and SIGHUP, and include SIGALRM exactly when a timeout other
\* than zero is configured.
C31_SignalSet ==
  (pc \in {"sg_true", "sg_false"} /\ \A k \in 1..Len(calls) : calls[k].ok) =>
    /\ {"SIGINT", "SIGHUP"} \subseteq Registered
    /\ "SIGALRM" \in Registered <=> opts.so_tout # 0

\* the endpoints of sequence h
Handled(h) == {h[k] : k \in 1..Len(h)}

\* C32: when pselect reports the sockets of set S ready, receive_events of
\* the pselect backend calls handle_event at most once on each endpoint,
\* and when it returns true it has called it on every endpoint of S.
C32_PselectEachOnce ==
  \A a \in 1..Len(runs) :
    (runs[a].backend = "pselect" /\ script # <<>> /\ script[1].kind = "sockets") =>
      /\ Cardinality(Handled(runs[a].handled)) = Len(runs[a].handled)
      /\ runs[a].ret = "true" => Handled(runs[a].handled) = script[1].ready

\* C33: the sequence number on the wire is the 64-bit sum of the offset
\* and the round, with no bits cut off, and a datagram of a later round
\* carries a greater number than one of an earlier round.
C33_FullWidthSequence ==
  /\ \A k \in 1..Len(sent) : sent[k].dg.snum = UAdd(U64(sent[k].round), opts.op_off)
  /\ \A a, b \in 1..Len(sent) :
       sent[a].round < sent[b].round => ULt(sent[a].dg.snum, sent[b].dg.snum)

\* the positions of the header line in the output
HeaderAt == {k \in 1..Len(out) : out[k].line = "header"}

\* C34: without -r the output starts with the header line, written once
\* receive_datagrams has begun and never again, and every line after it is
\* a CSV line; with -r there is no header line and the output holds raw
\* records only.
C34_HeaderOnce ==
  /\ opts.so_raw = 0 =>
       /\ HeaderAt = IF pc = "header" THEN {} ELSE {1}
       /\ pc = "header" => out = <<>>
       /\ \A k \in 1..Len(DataLines) : DataLines[k].line = "csv"
  /\ opts.so_raw = 1 =>
       /\ HeaderAt = {}
       /\ \A k \in 1..Len(out) : out[k].line = "raw"

C34_Witness ==
  /\ opts.so_raw = 1
  /\ pc = "wait"
  /\ Len(out) = 2
  /\ out[1].line = "raw" /\ out[2].line = "raw"

C36_KeyNeverZero ==
  /\ pc \in {"key_option", "key_send", "recv", "wait"} => opts.op_key # U64Zero
  /\ \A k \in 1..Len(sent) : sent[k].dg.key # U64Zero
  /\ (last.kind = "dgram") =>
       /\ last.valid
       /\ last.dec.pl_sid = opts.op_key
       /\ opts.so_sid = opts.op_key =>
            (last.stage = "output" /\ last.printed[1].sid = opts.op_key)
       /\ opts.so_sid = U64(7) => (opts.op_key = U64(7) <=> last.stage = "output")

C36_Witness ==
  /\ last.kind = "dgram"
  /\ opts.op_key = KeyOf(<<0, 0, 0, 0>>, <<0, 0, 0, 1>>)
  /\ Len(calls) = 2 /\ calls[1].val = U64Zero
  /\ opts.so_sid = opts.op_key
  /\ last.stage = "output"

\* C37: whenever the timer of msub is armed or has fired, and whenever
\* the receive loop has started, SIGINT, SIGHUP and (with a timeout
\* configured) SIGALRM are blocked and behind the signal descriptor; the
\* expiry never ends the process by the default disposition: it stays
\* pending until the event queue reports it, and a process that was
\* killed by a signal was still in its setup with no timer armed.
C37_BlockedBeforeArmed ==
  /\ timer # "off" => (opts.so_tout # 0 /\ {"SIGINT", "SIGHUP", "SIGALRM"} \subseteq sigmask)
  /\ pc \in {"header", "wait", "dispatch", "recv"} =>
       (SignalMask(opts) \subseteq sigmask /\ (opts.so_tout # 0 => timer # "off"))
  /\ pc = "killed" => (timer = "off" /\ "SIGALRM" \notin pending)
  /\ "SIGALRM" \in pending => timer = "fired"
  /\ (timer = "fired" /\ pc = "exit") => why \in {"signal", "queue", "handler"}

C37_Witness ==
  /\ timer = "fired"
  /\ "SIGALRM" \in pending
  /\ "SIGALRM" \in sigmask
  /\ pc = "wait"

\* the arguments parse_endpoint accepted, and those it refused
ParsedOk == { j \in DOMAIN calls : calls[j].call = "parse_endpoint" /\ calls[j].ok }

ParseFailed == { j \in DOMAIN calls : calls[j].call = "parse_endpoint" /\ ~calls[j].ok }

\* C38: parse_endpoints returns false for a count below 1 or above
\* ENDPOINT_MAX with nothing allocated or linked; once every one of the
\* ep_cnt arguments has parsed, the list holds exactly one endpoint per
\* argument and only then the call returns true; when parse_endpoint
\* refuses an argument, the call returns false and no endpoint of the
\* list is the one of that argument.
C38_ParseEndpoints ==
  /\ (CountRejected(opts.ep_cnt) /\ pc # "pe_count")
       => (pc = "pe_false" /\ eps = <<>> /\ calls = <<>>)
  /\ (opts.ep_cnt >= 1 /\ Cardinality(ParsedOk) = opts.ep_cnt)
       => /\ pc \in {"pe_loop", "pe_true"}
          /\ Len(eps) = opts.ep_cnt
          /\ \A k \in 1..Len(eps) :
               Cardinality({ m \in DOMAIN eps : eps[m].arg = k }) = 1
          /\ \A m \in DOMAIN eps :
               /\ parse_endpoint(script[eps[m].arg], Ifaces).ok
               /\ eps[m].ep_iname = parse_endpoint(script[eps[m].arg], Ifaces).ep_iname
               /\ eps[m].ep_maddr = parse_endpoint(script[eps[m].arg], Ifaces).ep_maddr
  /\ pc = "pe_true" => Cardinality(ParsedOk) = opts.ep_cnt
  /\ \A j \in ParseFailed :
       /\ pc = "pe_false"
       /\ \A m \in DOMAIN eps : eps[m].arg # calls[j].ep

\* the second argument names an interface that is down, after a first
\* argument that parsed
C38_Witness ==
  /\ pc = "pe_false"
  /\ Len(eps) = 1
  /\ Len(script) = 2
  /\ script[2] = <<"eth1", "=", "239.1.1.1">>
  /\ ParseFailed # {}

\* what sscanf read from the argument of -t, and the exact product of its
\* scalar and its unit's multiplier
Scanned == sscanf(script)

Product == UMulFull(Scanned.num, parse_unit(Scanned.unit))

Unsigned == \A k \in 1..Len(script) : script[k] # "-"

\* C39: parse_duration returns failure whenever the scalar times the
\* multiplier of the unit does not fit in 64 bits, a scalar that does not
\* fit by itself included, and otherwise stores exactly that product; on
\* every failure the output is what it was before the call.
C39_DurationExact ==
  /\ pc = "pd_false" => opts.so_tout = runs[1].before
  /\ (pc = "pd_true" /\ Unsigned)
       => /\ ~Scanned.over
          /\ IsZero(High(Product, 8))
          /\ opts.so_tout = Low(Product, 8)

====
